---- MODULE Spec2Model ----
(***************************************************************************)
(* Verification model of deniai-app/harbor: the path-confined repository   *)
(* tool surface (VirtualIdeTools, both budget profiles the repository      *)
(* contains) and the review run's auto-approval gate.                      *)
(*                                                                         *)
(* Strings are TLA+ strings; a character is a string of length one.        *)
(***************************************************************************)
EXTENDS Integers, Sequences, FiniteSets, TLC

VARIABLES
  profile,          \* which VirtualIdeTools class the session runs
  allowConfigRead,  \* options.allowConfigRead
  changedFiles,     \* options.changedFiles (the filenames, in order)
  budgets,          \* this.budgets
  totalReadLines,   \* this.totalReadLines
  totalCalls,       \* this.totalCalls
  lastCall,         \* the last tool call and what it answered
  listDirAttempted, \* history: a list_dir call has been made in this session
  listDirReturned,  \* history: a list_dir call of this session has returned a listing
  passed,           \* history: per kind, the calls that got past ensureBudget
  surfaces,         \* the VirtualIdeTools instances of concurrent runs
  workdir,          \* the WorkdirSession of a run: its directory, its cleanup calls
  awaiting,         \* the read_file calls of the session suspended at `await readFile`
  pullRuns,         \* the runs started on the pull request, each with its position
  workerVersion,    \* which runReviewForPullRequest the run executes
  runPc,            \* position of the review run
  llmResult,        \* what generateSuggestions returned
  reviews,          \* reviews created on the pull request, in order
  outcome,          \* the run's ReviewOutcome.status
  fnName,           \* which function a function-level behaviour applies
  fnInput,          \* the arguments it is applied to
  fnOutput          \* <<>> before the application, <<value>> after it

jobVars == <<surfaces, workdir, awaiting, pullRuns>>
toolVars == <<profile, allowConfigRead, changedFiles, budgets, totalReadLines,
              totalCalls, lastCall, listDirAttempted, listDirReturned, passed,
              surfaces, workdir, awaiting, pullRuns>>
runVars == <<workerVersion, runPc, llmResult, reviews, outcome>>
fnVars == <<fnName, fnInput, fnOutput>>
vars == <<profile, allowConfigRead, changedFiles, budgets, totalReadLines,
          totalCalls, lastCall, listDirAttempted, listDirReturned, passed,
          surfaces, workdir, awaiting, pullRuns,
          workerVersion, runPc, llmResult, reviews, outcome,
          fnName, fnInput, fnOutput>>

-----------------------------------------------------------------------------
(* JavaScript string built-ins, computed character by character.           *)

CharAt(s, i) == SubSeq(s, i, i)

StartsWith(s, p) == Len(p) <= Len(s) /\ SubSeq(s, 1, Len(p)) = p

EndsWith(s, p) == Len(p) <= Len(s) /\ SubSeq(s, Len(s) - Len(p) + 1, Len(s)) = p

Includes(s, q) == \E i \in 1..(Len(s) - Len(q) + 1) : SubSeq(s, i, i + Len(q) - 1) = q

UpperChars == "ABCDEFGHIJKLMNOPQRSTUVWXYZ"

LowerChars == "abcdefghijklmnopqrstuvwxyz"

RECURSIVE IndexFrom(_, _, _)
IndexFrom(s, c, i) ==
  IF i > Len(s) THEN 0
  ELSE IF CharAt(s, i) = c THEN i
  ELSE IndexFrom(s, c, i + 1)

RECURSIVE LastIndexFrom(_, _, _)
LastIndexFrom(s, c, i) ==
  IF i < 1 THEN 0
  ELSE IF CharAt(s, i) = c THEN i
  ELSE LastIndexFrom(s, c, i - 1)

(* 1-based index of the first / last occurrence of character c, 0 if none *)
IndexOf(s, c) == IndexFrom(s, c, 1)

LastIndexOf(s, c) == LastIndexFrom(s, c, Len(s))

(* upper-case letter -> lower-case letter, computed once *)
LowerMap ==
  [c \in {CharAt(UpperChars, i) : i \in 1..Len(UpperChars)} |->
     CharAt(LowerChars, IndexOf(UpperChars, c))]

LowerChar(c) == IF c \in DOMAIN LowerMap THEN LowerMap[c] ELSE c

RECURSIVE ToLowerCase(_)
ToLowerCase(s) ==
  IF Len(s) = 0 THEN ""
  ELSE LowerChar(CharAt(s, 1)) \o ToLowerCase(SubSeq(s, 2, Len(s)))

RECURSIVE ReplaceAll(_, _, _)
ReplaceAll(s, from, to) ==
  IF Len(s) = 0 THEN ""
  ELSE (IF CharAt(s, 1) = from THEN to ELSE CharAt(s, 1))
         \o ReplaceAll(SubSeq(s, 2, Len(s)), from, to)

IsSpace(c) == c \in {" ", "\t", "\n", "\r"}

RECURSIVE TrimStart(_)
TrimStart(s) ==
  IF Len(s) > 0 /\ IsSpace(CharAt(s, 1)) THEN TrimStart(SubSeq(s, 2, Len(s))) ELSE s

RECURSIVE TrimEnd(_)
TrimEnd(s) ==
  IF Len(s) > 0 /\ IsSpace(CharAt(s, Len(s))) THEN TrimEnd(SubSeq(s, 1, Len(s) - 1)) ELSE s

Trim(s) == TrimEnd(TrimStart(s))

RECURSIVE Split(_, _)
Split(s, sepChar) ==
  LET k == IndexOf(s, sepChar)
  IN IF k = 0 THEN <<s>>
     ELSE <<SubSeq(s, 1, k - 1)>> \o Split(SubSeq(s, k + 1, Len(s)), sepChar)

RECURSIVE Join(_, _)
Join(segs, sepChar) ==
  IF Len(segs) = 0 THEN ""
  ELSE IF Len(segs) = 1 THEN segs[1]
  ELSE segs[1] \o sepChar \o Join(Tail(segs), sepChar)

NonEmpty(x) == Len(x) > 0

-----------------------------------------------------------------------------
(* node:path (POSIX): basename, extname, resolve.                          *)

RECURSIVE StripTrailingSlashes(_)
StripTrailingSlashes(p) ==
  IF Len(p) > 1 /\ CharAt(p, Len(p)) = "/" THEN StripTrailingSlashes(SubSeq(p, 1, Len(p) - 1)) ELSE p

basename(p) ==
  LET q == StripTrailingSlashes(p)
      k == LastIndexOf(q, "/")
  IN IF q = "/" THEN "" ELSE SubSeq(q, k + 1, Len(q))

extname(p) ==
  LET b == basename(p)
      k == LastIndexOf(b, ".")
  IN IF k <= 1 THEN "" ELSE SubSeq(b, k, Len(b))

RECURSIVE ResolveSegments(_, _)
ResolveSegments(stack, segs) ==
  IF Len(segs) = 0 THEN stack
  ELSE LET seg == Head(segs)
       IN IF seg = "" \/ seg = "." THEN ResolveSegments(stack, Tail(segs))
          ELSE IF seg = ".."
               THEN ResolveSegments(IF Len(stack) = 0 THEN stack
                                    ELSE SubSeq(stack, 1, Len(stack) - 1), Tail(segs))
               ELSE ResolveSegments(Append(stack, seg), Tail(segs))

PathResolve(base, rel) ==
  "/" \o Join(ResolveSegments(<<>>, Split(base, "/") \o Split(rel, "/")), "/")

PathJoin(dir, name) == dir \o "/" \o name

-----------------------------------------------------------------------------
(* The checked-out tree the session reads.  RootDir is options.rootDir;    *)
(* /w/out.ts lies outside it.  A line of a file is its text together with  *)
(* the pattern families of the sink scanner that match it.                 *)

RootDir == "/w/job"

Line(text, marks) == [text |-> text, marks |-> marks]

Dir(dir, name) == [dir |-> dir, name |-> name, isDir |-> TRUE, lines |-> <<>>]

File(dir, name, lines) == [dir |-> dir, name |-> name, isDir |-> FALSE, lines |-> lines]

FsEntries ==
  { Dir("", "w"),
    Dir("/w", "job"),
    File("/w", "out.ts", <<Line("eval(req.body.out)", {"injection", "taint"})>>),
    Dir("/w/job", ".git"),
    File("/w/job/.git", "HEAD", <<Line("ref: refs/heads/main", {})>>),
    File("/w/job", ".env", <<Line("API_KEY=s3cret", {})>>),
    File("/w/job", "b.ts", <<Line("const key = 1", {}), Line("", {})>>),
    File("/w/job", "credentials.ts",
         <<Line("el.innerHTML = req.query.key", {"xss", "taint"})>>),
    File("/w/job", "package.json", <<Line("{ \"name\": \"key\" }", {})>>),
    File("/w/job", "README.md", <<Line("# readme", {})>>),
    Dir("/w/job", "src"),
    File("/w/job/src", "a.ts",
         <<Line("import x from 'y'", {}),
           Line("eval(req.body.Key)", {"injection", "taint"}),
           Line("path.join(base, name)", {"path"}),
           Line("const p = path.join(root, req.query.file)", {"path", "taint"}),
           Line("out.innerHTML = sanitize(html)", {"xss", "sanitizer"}),
           Line("child_process.execSync(encodeURIComponent(cmd))", {"cmd", "sanitizer"}),
           Line("document.write(html)", {"xss"})>>),
    File("/w/job/src", "ID_RSA", <<Line("-----BEGIN KEY-----", {})>>),
    Dir("/w/job/src", "lib"),
    File("/w/job/src/lib", "c.ts", <<Line("export {}", {})>>),
    File("/w/job/src", "z.ts", <<Line("export {}", {})>>),
    Dir("/w/job/src", "node_modules"),
    File("/w/job/src/node_modules", "m.js", <<Line("module.exports = 1", {})>>) }

AbsPath(e) == PathJoin(e.dir, e.name)

(* the tree by absolute path, computed once *)
FsTable ==
  [p \in {AbsPath(e) : e \in FsEntries} |-> CHOOSE e \in FsEntries : AbsPath(e) = p]

Exists(abs) == abs \in DOMAIN FsTable

EntryAt(abs) == FsTable[abs]

IsDirectory(abs) == Exists(abs) /\ EntryAt(abs).isDir

IsFile(abs) == Exists(abs) /\ ~EntryAt(abs).isDir

(* String.prototype.localeCompare on the names of the tree: per character, *)
(* punctuation before digits before letters.                               *)
Collation == "_-.0123456789aAbBcCdDeEfFgGhHiIjJkKlLmMnNoOpPqQrRsStTuUvVwWxXyYzZ"

RECURSIVE LocaleLess(_, _)
LocaleLess(a, b) ==
  IF Len(b) = 0 THEN FALSE
  ELSE IF Len(a) = 0 THEN TRUE
  ELSE LET ra == IndexOf(Collation, CharAt(a, 1))
           rb == IndexOf(Collation, CharAt(b, 1))
       IN IF ra # rb THEN ra < rb
          ELSE LocaleLess(SubSeq(a, 2, Len(a)), SubSeq(b, 2, Len(b)))

RECURSIVE SortEntries(_)
SortEntries(S) ==
  IF S = {} THEN <<>>
  ELSE LET m == CHOOSE e \in S : \A f \in S \ {e} : LocaleLess(e.name, f.name)
       IN <<m>> \o SortEntries(S \ {m})

(* the sorted listing of every directory of the tree, computed once *)
SortedListing ==
  [d \in {AbsPath(e) : e \in {f \in FsEntries : f.isDir}} |->
     SortEntries({e \in FsEntries : e.dir = d})]

(* readdir(absoluteDir, {withFileTypes: true}) followed by entries.sort()  *)
readdir(absoluteDir) == SortedListing[absoluteDir]

-----------------------------------------------------------------------------
(* VirtualIdeTools.  Two classes of this name are in the repository: the   *)
(* conservative profile and the high-budget profile.                       *)

EXCLUDED_DIRS ==
  {".git", "node_modules", "dist", "build", ".next", "coverage", ".cache", ".turbo"}

DEFAULT_CONFIG_ALLOWLIST ==
  {"package.json", "tsconfig.json", "tsconfig.base.json", "pnpm-workspace.yaml",
   "bunfig.toml", ".eslintrc.js", ".oxlintrc.json"}

SECURITY_SCAN_EXTENSIONS == {".js", ".jsx", ".ts", ".tsx", ".mjs", ".cjs"}

isHiddenSecretFile(fileName) ==
  LET lower == ToLowerCase(fileName)
  IN \/ StartsWith(lower, ".env")
     \/ EndsWith(lower, ".pem")
     \/ lower = "id_rsa"
     \/ StartsWith(lower, "credentials")

\* the messages of the errors the tools throw (ENOENT: what node:fs throws)
Err ==
  [absolute |-> "Absolute paths are not allowed.",
   traversal |-> "Path traversal is not allowed.",
   escaped |-> "Path escaped repository root.",
   ordering |-> "list_dir must be called first once with depth=3.",
   budget |-> "Tool budget exceeded",
   readArgs |-> "read_file requires path, start_line, end_line.",
   searchArgs |-> "search_text requires query.",
   unknownTool |-> "Unknown tool",
   range |-> "end_line must be >= start_line.",
   span |-> "read_file can read at most 200 lines per call.",
   restricted |-> "read_file is restricted to changed files by default",
   denied |-> "Access denied.",
   totalLines |-> "read_file total line budget exceeded (2000 lines per PR).",
   io |-> "ENOENT"]

(* /^[a-zA-Z]:\// *)
IsDrivePath(path) ==
  /\ Len(path) >= 3
  /\ Includes(LowerChars, LowerChar(CharAt(path, 1)))
  /\ CharAt(path, 2) = ":"
  /\ CharAt(path, 3) = "/"

PathOk(path) == [ok |-> TRUE, err |-> "", path |-> path]

PathErr(err) == [ok |-> FALSE, err |-> err, path |-> ""]

\* normalizeRepoRelativePath without its ".." segment test: the variant that
\* C3_PathConfinement tells apart from the code.
normalizeKeepingDotDot(inputPath) ==
  LET path == Trim(ReplaceAll(inputPath, "\\", "/"))
  IN IF path = "" \/ path = "." THEN PathOk(".")
     ELSE IF StartsWith(path, "/") \/ IsDrivePath(path) THEN PathErr(Err.absolute)
     ELSE PathOk(Join(SelectSeq(Split(path, "/"), NonEmpty), "/"))

normalizeRepoRelativePath(inputPath) ==
  LET path == Trim(ReplaceAll(inputPath, "\\", "/"))
  IN IF path = "" \/ path = "." THEN PathOk(".")
     ELSE IF StartsWith(path, "/") \/ IsDrivePath(path) THEN PathErr(Err.absolute)
     ELSE LET segments == Split(path, "/")
          IN IF \E i \in 1..Len(segments) : segments[i] = ".."
             THEN PathErr(Err.traversal)
             ELSE PathOk(Join(SelectSeq(segments, NonEmpty), "/"))

resolveRepoPath(repoRelativePath) ==
  LET normalized == normalizeRepoRelativePath(repoRelativePath)
  IN IF ~normalized.ok THEN normalized
     ELSE LET candidate == IF normalized.path = "." THEN RootDir
                           ELSE PathResolve(RootDir, normalized.path)
              safeRoot == IF EndsWith(RootDir, "/") THEN RootDir ELSE RootDir \o "/"
          IN IF candidate # RootDir /\ ~StartsWith(candidate, safeRoot)
             THEN PathErr(Err.escaped)
             ELSE PathOk(candidate)

InitialBudgets(p) ==
  IF p = "conservative"
  THEN [listDir |-> 3, readFile |-> 8, searchText |-> 5, readGuideline |-> 2]
  ELSE [listDir |-> 200, readFile |-> 2000, searchText |-> 200, readGuideline |-> 20,
        securityScan |-> 50]

\* ensureBudget drawing on one pool: every kind pays for a call.  The variant
\* that C23_FailedCallFrame tells apart from the code.
ensureBudgetSharedPool(b, tool) ==
  LET nb == [k \in DOMAIN b |-> b[k] - 1]
  IN [budgets |-> nb, ok |-> ~(nb[tool] < 0)]

\* ensureBudget testing the counter before it decrements it: the variant that
\* C34_AccountingRaceFree tells apart from the code.
ensureBudgetTestingFirst(b, tool) ==
  LET nb == [b EXCEPT ![tool] = @ - 1]
  IN [budgets |-> nb, ok |-> ~(b[tool] < 0)]

ensureBudget(b, tool) ==
  LET nb == [b EXCEPT ![tool] = @ - 1]
  IN [budgets |-> nb, ok |-> ~(nb[tool] < 0)]

ensureGuidelineBudget(b) ==
  LET nb == [b EXCEPT !.readGuideline = @ - 1]
  IN [budgets |-> nb, ok |-> ~(nb.readGuideline < 0)]

changedFileSet == {changedFiles[i] : i \in 1..Len(changedFiles)}

\* isAllowedReadPath without its allowConfigRead test: the variant that
\* C8_ReadAllowlist tells apart from the code.
isAllowedIgnoringFlag(path) ==
  path \in changedFileSet \/ basename(path) \in DEFAULT_CONFIG_ALLOWLIST

isAllowedReadPath(path) ==
  IF path \in changedFileSet THEN TRUE
  ELSE IF ~allowConfigRead THEN FALSE
  ELSE basename(path) \in DEFAULT_CONFIG_ALLOWLIST

isScannableFile(path) == ToLowerCase(extname(path)) \in SECURITY_SCAN_EXTENSIONS

(* What a tool operation answers: the session's mutable fields after it,   *)
(* the error it threw ("" when it returned), the value it returned, the    *)
(* absolute paths it handed to the file system and the files whose content *)
(* it read.                                                                *)
Result(st, err, out, access, reads) ==
  [st |-> st, err |-> err, out |-> out, access |-> access, reads |-> reads]

Min(a, b) == IF a < b THEN a ELSE b

Max(a, b) == IF a > b THEN a ELSE b

-----------------------------------------------------------------------------
(* list_dir                                                                *)

ListDirDepthCap == IF profile = "conservative" THEN 10 ELSE 24

ListDirEntriesCap == IF profile = "conservative" THEN 2000 ELSE 10000

RECURSIVE walk(_, _, _, _, _)
RECURSIVE walkEntries(_, _, _, _, _, _)

(* acc = [output, access, err]: the listing so far, the directories read   *)
(* so far, and the error readdir threw.                                    *)
\* walk without its test of the collected count: the variant that
\* C30_ResultCaps tells apart from the code.
walkReadingPastCap(absoluteDir, currentRelative, depthLeft, resolvedMax, acc) ==
  IF depthLeft < 0 THEN acc
  ELSE IF ~IsDirectory(absoluteDir)
       THEN [acc EXCEPT !.access = @ \cup {absoluteDir}, !.err = Err.io]
       ELSE walkEntries(readdir(absoluteDir), absoluteDir, currentRelative, depthLeft,
                        resolvedMax, [acc EXCEPT !.access = @ \cup {absoluteDir}])

walk(absoluteDir, currentRelative, depthLeft, resolvedMax, acc) ==
  IF Len(acc.output) >= resolvedMax \/ depthLeft < 0 THEN acc
  ELSE IF ~IsDirectory(absoluteDir)
       THEN [acc EXCEPT !.access = @ \cup {absoluteDir}, !.err = Err.io]
       ELSE walkEntries(readdir(absoluteDir), absoluteDir, currentRelative, depthLeft,
                        resolvedMax, [acc EXCEPT !.access = @ \cup {absoluteDir}])

walkEntries(entries, absoluteDir, currentRelative, depthLeft, resolvedMax, acc) ==
  IF Len(entries) = 0 THEN acc
  ELSE LET entry == Head(entries)
       IN IF Len(acc.output) >= resolvedMax THEN acc
          ELSE IF entry.name \in EXCLUDED_DIRS \/ isHiddenSecretFile(entry.name)
               THEN walkEntries(Tail(entries), absoluteDir, currentRelative, depthLeft,
                                resolvedMax, acc)
               ELSE LET rel == IF currentRelative = "." THEN entry.name
                               ELSE currentRelative \o "/" \o entry.name
                        pushed == [acc EXCEPT !.output =
                                     Append(@, IF entry.isDir THEN rel \o "/" ELSE rel)]
                        below == IF entry.isDir /\ depthLeft > 0
                                 THEN walk(PathJoin(absoluteDir, entry.name), rel,
                                           depthLeft - 1, resolvedMax, pushed)
                                 ELSE pushed
                    IN walkEntries(Tail(entries), absoluteDir, currentRelative, depthLeft,
                                   resolvedMax, below)

listDir(st, path, depth, maxEntries) ==
  LET b == ensureBudget(st.budgets, "listDir")
      st1 == [st EXCEPT !.budgets = b.budgets]
      resolvedDepth == Max(0, Min(depth, ListDirDepthCap))
      resolvedMax == Max(1, Min(maxEntries, ListDirEntriesCap))
      relative == normalizeRepoRelativePath(path)
      startDir == resolveRepoPath(relative.path)
      walked == walk(startDir.path, IF relative.path = "" THEN "." ELSE relative.path,
                     resolvedDepth, resolvedMax,
                     [output |-> <<>>, access |-> {}, err |-> ""])
  IN IF ~b.ok THEN Result(st1, Err.budget, <<>>, {}, {})
     ELSE IF ~relative.ok THEN Result(st1, relative.err, <<>>, {}, {})
     ELSE IF ~startDir.ok THEN Result(st1, startDir.err, <<>>, {}, {})
     ELSE IF walked.err # "" THEN Result(st1, walked.err, <<>>, walked.access, {})
     ELSE Result(st1, "", walked.output, walked.access, {})

-----------------------------------------------------------------------------
(* get_changed_files                                                       *)

getChangedFiles(st) == Result(st, "", changedFiles, {}, {})

-----------------------------------------------------------------------------
(* read_file                                                               *)

NumberedLines(lines, startLine, endLine) ==
  LET startIndex == Max(1, startLine) - 1
      endIndex == Min(Len(lines), endLine)
  IN [k \in 1..Max(0, endIndex - startIndex) |->
        [line |-> startIndex + k, text |-> lines[startIndex + k].text]]

\* readFile that counts the requested lines before it validates the request: the
\* variant that C7_TotalReadLines tells apart from the code.
readFileCountingFirst(st, path, startLine, endLine) ==
  LET b == ensureBudget(st.budgets, "readFile")
      st1 == [st EXCEPT !.budgets = b.budgets,
                        !.totalReadLines = @ + Max(0, endLine - startLine + 1)]
  IN IF ~b.ok THEN Result([st EXCEPT !.budgets = b.budgets], Err.budget, <<>>, {}, {})
     ELSE Result(st1, Err.span, <<>>, {}, {})

(* The conservative profile's readFile. *)
readFileConservative(st, path, startLine, endLine) ==
  LET b == ensureBudget(st.budgets, "readFile")
      st1 == [st EXCEPT !.budgets = b.budgets]
      requestedLineCount == endLine - startLine + 1
      relative == normalizeRepoRelativePath(path)
      absolutePath == resolveRepoPath(relative.path)
  IN IF ~b.ok THEN Result(st1, Err.budget, <<>>, {}, {})
     ELSE IF endLine < startLine THEN Result(st1, Err.range, <<>>, {}, {})
     ELSE IF requestedLineCount > 200 THEN Result(st1, Err.span, <<>>, {}, {})
     ELSE IF ~relative.ok THEN Result(st1, relative.err, <<>>, {}, {})
     ELSE IF ~isAllowedReadPath(relative.path) THEN Result(st1, Err.restricted, <<>>, {}, {})
     ELSE IF isHiddenSecretFile(basename(relative.path))
          THEN Result(st1, Err.denied, <<>>, {}, {})
     ELSE IF st.totalReadLines + requestedLineCount > 2000
          THEN Result(st1, Err.totalLines, <<>>, {}, {})
     ELSE IF ~absolutePath.ok THEN Result(st1, absolutePath.err, <<>>, {}, {})
     ELSE IF ~IsFile(absolutePath.path)
          THEN Result(st1, Err.io, <<>>, {absolutePath.path}, {})
     ELSE Result([st1 EXCEPT !.totalReadLines = @ + requestedLineCount], "",
                 NumberedLines(EntryAt(absolutePath.path).lines, startLine, endLine),
                 {absolutePath.path}, {absolutePath.path})

(* The high-budget profile's readFile. *)
readFileHigh(st, path, startLine, endLine) ==
  LET b == ensureBudget(st.budgets, "readFile")
      st1 == [st EXCEPT !.budgets = b.budgets]
      relative == normalizeRepoRelativePath(path)
      absolutePath == resolveRepoPath(relative.path)
  IN IF ~b.ok THEN Result(st1, Err.budget, <<>>, {}, {})
     ELSE IF endLine < startLine THEN Result(st1, Err.range, <<>>, {}, {})
     ELSE IF ~relative.ok THEN Result(st1, relative.err, <<>>, {}, {})
     ELSE IF ~isAllowedReadPath(relative.path) THEN Result(st1, Err.restricted, <<>>, {}, {})
     ELSE IF isHiddenSecretFile(basename(relative.path))
          THEN Result(st1, Err.denied, <<>>, {}, {})
     ELSE IF ~absolutePath.ok THEN Result(st1, absolutePath.err, <<>>, {}, {})
     ELSE IF ~IsFile(absolutePath.path)
          THEN Result(st1, Err.io, <<>>, {absolutePath.path}, {})
     ELSE Result(st1, "",
                 NumberedLines(EntryAt(absolutePath.path).lines, startLine, endLine),
                 {absolutePath.path}, {absolutePath.path})

readFile(st, path, startLine, endLine) ==
  IF profile = "conservative" THEN readFileConservative(st, path, startLine, endLine)
  ELSE readFileHigh(st, path, startLine, endLine)

-----------------------------------------------------------------------------
(* search_text                                                             *)

SearchResultsCap == IF profile = "conservative" THEN 50 ELSE 1000

Slice(s, n) == SubSeq(s, 1, Min(n, Len(s)))

(* new Set(changedFiles.map(file => file.filename)), in iteration order *)
RECURSIVE SetOrder(_, _)
SetOrder(names, seen) ==
  IF Len(names) = 0 THEN <<>>
  ELSE IF Head(names) \in seen THEN SetOrder(Tail(names), seen)
  ELSE <<Head(names)>> \o SetOrder(Tail(names), seen \cup {Head(names)})

(* the hits of one file: its lines that contain the query, in order *)
RECURSIVE FileHits(_, _, _, _)
FileHits(path, lines, index, normalizedQuery) ==
  IF index > Len(lines) THEN <<>>
  ELSE LET lineText == lines[index].text
           rest == FileHits(path, lines, index + 1, normalizedQuery)
       IN IF ~Includes(ToLowerCase(lineText), normalizedQuery) THEN rest
          ELSE <<[path |-> path, line |-> index, excerpt |-> Slice(Trim(lineText), 240)]>>
                 \o rest

\* searchFiles without the test of isHiddenSecretFile: the variant that
\* C24_SearchHits tells apart from the code.
RECURSIVE searchFilesKeepingSecrets(_, _, _, _)
searchFilesKeepingSecrets(paths, normalizedQuery, resolvedMax, acc) ==
  IF Len(paths) = 0 THEN acc
  ELSE LET path == Head(paths)
           absolutePath == resolveRepoPath(path)
           next == Tail(paths)
       IN IF ~absolutePath.ok
          THEN searchFilesKeepingSecrets(next, normalizedQuery, resolvedMax, acc)
          ELSE IF ~IsFile(absolutePath.path)
          THEN searchFilesKeepingSecrets(next, normalizedQuery, resolvedMax,
                                         [acc EXCEPT !.access = @ \cup {absolutePath.path}])
          ELSE LET found == FileHits(path, EntryAt(absolutePath.path).lines, 1,
                                     normalizedQuery)
                   room == resolvedMax - Len(acc.hits)
                   acc2 == [hits |-> acc.hits \o SubSeq(found, 1, Min(room, Len(found))),
                            access |-> acc.access \cup {absolutePath.path},
                            reads |-> acc.reads \cup {absolutePath.path}]
               IN IF Len(found) >= room THEN acc2
                  ELSE searchFilesKeepingSecrets(next, normalizedQuery, resolvedMax, acc2)

(* acc = [hits, access, reads] *)
RECURSIVE searchFiles(_, _, _, _)
searchFiles(paths, normalizedQuery, resolvedMax, acc) ==
  IF Len(paths) = 0 THEN acc
  ELSE LET path == Head(paths)
           absolutePath == resolveRepoPath(path)
           next == Tail(paths)
       IN IF isHiddenSecretFile(basename(path))
          THEN searchFiles(next, normalizedQuery, resolvedMax, acc)
          ELSE IF ~absolutePath.ok
          THEN searchFiles(next, normalizedQuery, resolvedMax, acc)
          ELSE IF ~IsFile(absolutePath.path)
          THEN searchFiles(next, normalizedQuery, resolvedMax,
                           [acc EXCEPT !.access = @ \cup {absolutePath.path}])
          ELSE LET found == FileHits(path, EntryAt(absolutePath.path).lines, 1,
                                     normalizedQuery)
                   room == resolvedMax - Len(acc.hits)
                   acc2 == [hits |-> acc.hits \o SubSeq(found, 1, Min(room, Len(found))),
                            access |-> acc.access \cup {absolutePath.path},
                            reads |-> acc.reads \cup {absolutePath.path}]
               IN IF Len(found) >= room THEN acc2
                  ELSE searchFiles(next, normalizedQuery, resolvedMax, acc2)

searchText(st, query, maxResults) ==
  LET b == ensureBudget(st.budgets, "searchText")
      st1 == [st EXCEPT !.budgets = b.budgets]
      resolvedMax == Max(1, Min(maxResults, SearchResultsCap))
      normalizedQuery == ToLowerCase(query)
      found == searchFiles(SetOrder(changedFiles, {}), normalizedQuery, resolvedMax,
                           [hits |-> <<>>, access |-> {}, reads |-> {}])
  IN IF ~b.ok THEN Result(st1, Err.budget, <<>>, {}, {})
     ELSE Result(st1, "", found.hits, found.access, found.reads)

-----------------------------------------------------------------------------
(* read_guidelines                                                         *)

GuidelineFiles == <<"SECURITY.md", "PRODUCT.md", "README.md", "CONTRIBUTING.md">>

\* readGuidelineDocs without the catch around each file: the first file that
\* cannot be read fails the call.  The variant that C32_PerFileFailuresSkipped
\* tells apart from the code.
readGuidelineDocsWithoutCatch(st) ==
  LET b == ensureGuidelineBudget(st.budgets)
      st1 == [st EXCEPT !.budgets = b.budgets]
      idx == 1..Len(GuidelineFiles)
      abs == [i \in idx |-> resolveRepoPath(GuidelineFiles[i])]
      readable == {i \in idx : abs[i].ok /\ IsFile(abs[i].path)}
  IN IF ~b.ok THEN Result(st1, Err.budget, <<>>, {}, {})
     ELSE IF readable # idx
     THEN Result(st1, Err.io, <<>>, {abs[i].path : i \in {j \in idx : abs[j].ok}}, {})
     ELSE Result(st1, "",
                 [i \in idx |-> [file |-> GuidelineFiles[i],
                                 content |-> EntryAt(abs[i].path).lines]],
                 {abs[i].path : i \in idx},
                 {abs[i].path : i \in idx})

readGuidelineDocs(st) ==
  LET b == ensureGuidelineBudget(st.budgets)
      st1 == [st EXCEPT !.budgets = b.budgets]
      idx == 1..Len(GuidelineFiles)
      abs == [i \in idx |-> resolveRepoPath(GuidelineFiles[i])]
      readable == {i \in idx : abs[i].ok /\ IsFile(abs[i].path)}
  IN IF ~b.ok THEN Result(st1, Err.budget, <<>>, {}, {})
     ELSE Result(st1, "",
                 [i \in idx |-> [file |-> GuidelineFiles[i],
                                 content |-> IF i \in readable THEN EntryAt(abs[i].path).lines
                                             ELSE <<>>]],
                 {abs[i].path : i \in {j \in idx : abs[j].ok}},
                 {abs[i].path : i \in readable})

-----------------------------------------------------------------------------
(* scan_security_sinks (high-budget profile only).  A line's marks say     *)
(* which of the scanner's regular expressions match the line once          *)
(* stripScanNoise has removed its comments: "xss", "injection", "path"     *)
(* (the three pattern lists), "cmd" (hasChildProcessCall), "taint"         *)
(* (USER_INPUT_MARKERS) and "sanitizer" (SANITIZER_PATTERNS).              *)

hasUserInputSource(line) == "taint" \in line.marks

inferConfidence(line) ==
  IF hasUserInputSource(line) THEN "high"
  ELSE IF "sanitizer" \in line.marks THEN "low"
  ELSE "medium"

Finding(path, i, category, line, confidence) ==
  [path |-> path, line |-> i, category |-> category, excerpt |-> Slice(line.text, 260),
   confidence |-> confidence, sourceHint |-> hasUserInputSource(line)]

PushUnseen(findings, f) ==
  IF \E k \in 1..Len(findings) :
       /\ findings[k].path = f.path
       /\ findings[k].line = f.line
       /\ findings[k].category = f.category
  THEN findings
  ELSE Append(findings, f)

\* scanLines reporting every path join, resolve or normalize call: the variant
\* that C26_PathTraversalNeedsTaint tells apart from the code.
RECURSIVE scanLinesWithoutSource(_, _, _, _)
scanLinesWithoutSource(path, lines, i, findings) ==
  IF i > Len(lines) THEN findings
  ELSE LET line == lines[i]
           hasSource == hasUserInputSource(line)
           confidence == inferConfidence(line)
           skip == scanLinesWithoutSource(path, lines, i + 1, findings)
           push(category, conf) ==
             scanLinesWithoutSource(path, lines, i + 1,
                       PushUnseen(findings, Finding(path, i, category, line, conf)))
       IN IF line.text = "" THEN skip
          ELSE IF "xss" \in line.marks
          THEN (IF confidence = "low" THEN skip
                ELSE push("xss", IF hasSource THEN "high" ELSE "medium"))
          ELSE IF "injection" \in line.marks
          THEN (IF confidence = "low" THEN skip ELSE push("injection", confidence))
          ELSE IF "cmd" \in line.marks
          THEN push("cmd-injection", IF hasSource THEN "high" ELSE "medium")
          ELSE IF "path" \in line.marks
          THEN push("path-traversal", "high")
          ELSE skip

RECURSIVE scanLines(_, _, _, _)
scanLines(path, lines, i, findings) ==
  IF i > Len(lines) THEN findings
  ELSE LET line == lines[i]
           hasSource == hasUserInputSource(line)
           confidence == inferConfidence(line)
           skip == scanLines(path, lines, i + 1, findings)
           push(category, conf) ==
             scanLines(path, lines, i + 1,
                       PushUnseen(findings, Finding(path, i, category, line, conf)))
       IN IF line.text = "" THEN skip
          ELSE IF "xss" \in line.marks
          THEN (IF confidence = "low" THEN skip
                ELSE push("xss", IF hasSource THEN "high" ELSE "medium"))
          ELSE IF "injection" \in line.marks
          THEN (IF confidence = "low" THEN skip ELSE push("injection", confidence))
          ELSE IF "cmd" \in line.marks
          THEN push("cmd-injection", IF hasSource THEN "high" ELSE "medium")
          ELSE IF "path" \in line.marks /\ hasSource
          THEN push("path-traversal", "high")
          ELSE skip

(* acc = [findings, access, reads] *)
RECURSIVE scanFiles(_, _)
scanFiles(paths, acc) ==
  IF Len(paths) = 0 THEN acc
  ELSE LET path == Head(paths)
           absolutePath == resolveRepoPath(path)
       IN IF ~isScannableFile(path) THEN scanFiles(Tail(paths), acc)
          ELSE IF ~absolutePath.ok THEN scanFiles(Tail(paths), acc)
          ELSE IF ~IsFile(absolutePath.path)
          THEN scanFiles(Tail(paths), [acc EXCEPT !.access = @ \cup {absolutePath.path}])
          ELSE scanFiles(Tail(paths),
                         [findings |-> scanLines(path, EntryAt(absolutePath.path).lines, 1,
                                                 acc.findings),
                          access |-> acc.access \cup {absolutePath.path},
                          reads |-> acc.reads \cup {absolutePath.path}])

scanSecuritySinks(st) ==
  LET b == ensureBudget(st.budgets, "securityScan")
      st1 == [st EXCEPT !.budgets = b.budgets]
      scanned == scanFiles(SetOrder(changedFiles, {}),
                           [findings |-> <<>>, access |-> {}, reads |-> {}])
  IN IF ~b.ok THEN Result(st1, Err.budget, <<>>, {}, {})
     ELSE Result(st1, "", scanned.findings, scanned.access, scanned.reads)

-----------------------------------------------------------------------------
(* call(toolName, rawArgs).  An argument that the caller left out is <<>>, *)
(* one that it passed is <<value>>.                                        *)

NoArgs ==
  [path |-> <<>>, depth |-> <<>>, max_entries |-> <<>>, start_line |-> <<>>,
   end_line |-> <<>>, query |-> <<>>, max_results |-> <<>>]

OrElse(opt, default) == IF opt = <<>> THEN default ELSE opt[1]

FalsyString(opt) == opt = <<>> \/ opt[1] = ""

FalsyNumber(opt) == opt = <<>> \/ opt[1] = 0

callSwitch(st, toolName, rawArgs) ==
  CASE toolName = "list_dir" ->
         listDir(st, OrElse(rawArgs.path, "."), OrElse(rawArgs.depth, 3),
                 OrElse(rawArgs.max_entries, 400))
    [] toolName = "get_changed_files" -> getChangedFiles(st)
    [] toolName = "read_file" ->
         IF FalsyString(rawArgs.path) \/ FalsyNumber(rawArgs.start_line)
              \/ FalsyNumber(rawArgs.end_line)
         THEN Result(st, Err.readArgs, <<>>, {}, {})
         ELSE readFile(st, rawArgs.path[1], rawArgs.start_line[1], rawArgs.end_line[1])
    [] toolName = "search_text" ->
         IF FalsyString(rawArgs.query) THEN Result(st, Err.searchArgs, <<>>, {}, {})
         ELSE searchText(st, rawArgs.query[1], OrElse(rawArgs.max_results, 20))
    [] toolName = "read_guidelines" -> readGuidelineDocs(st)
    [] toolName = "scan_security_sinks" /\ profile = "high" -> scanSecuritySinks(st)
    [] OTHER -> Result(st, Err.unknownTool, <<>>, {}, {})

\* call with get_changed_files exempt from the ordering gate: the variant that
\* C2_ListDirFirst tells apart from the code.
callExemptingChangedFiles(st, toolName, rawArgs) ==
  IF st.totalCalls = 0 /\ toolName \notin {"list_dir", "get_changed_files"}
  THEN Result(st, Err.ordering, <<>>, {}, {})
  ELSE callSwitch([st EXCEPT !.totalCalls = @ + 1], toolName, rawArgs)

call(st, toolName, rawArgs) ==
  IF st.totalCalls = 0 /\ toolName # "list_dir"
  THEN Result(st, Err.ordering, <<>>, {}, {})
  ELSE callSwitch([st EXCEPT !.totalCalls = @ + 1], toolName, rawArgs)

-----------------------------------------------------------------------------
(* The tool session as a state machine: the engine issues one call at a    *)
(* time (generateText's tool loop awaits each execute).                    *)

MaxCallsTools == 2    \* calls per session when the arguments vary widely
MaxCallsBudget == 10  \* calls per session when the session is long

ChangedFilesChoices ==
  { <<"src/a.ts", "credentials.ts", ".env", "b.ts", "src/a.ts">>,
    <<"b.ts", "src/ID_RSA", "../out.ts", "gone.ts", "src">>,
    <<"gone.ts", "src", "../out.ts", "src/a.ts">> }

ListDirArgs ==
  { [NoArgs EXCEPT !.path = p, !.depth = dm[1], !.max_entries = dm[2]] :
      p \in {<<>>, <<"src">>, <<" ./src/ ">>, <<".git">>, <<"src/node_modules">>,
             <<"src\\..\\..">>, <<"/w">>, <<"c:\\w">>, <<"nope">>},
      dm \in {<<<<>>, <<>>>>, <<<<0>>, <<1>>>>, <<<<1>>, <<3>>>>, <<<<1>>, <<4>>>>,
              <<<<3>>, <<0>>>>} }

ReadFileArgs ==
  { [NoArgs EXCEPT !.path = p, !.start_line = <<1>>, !.end_line = <<2>>] :
      p \in {<<"src/a.ts">>, <<"src\\a.ts">>, <<"b.ts">>, <<".env">>, <<"credentials.ts">>,
             <<"src/ID_RSA">>, <<"package.json">>, <<"src/../package.json">>,
             <<"../out.ts">>, <<"/w/out.ts">>, <<"gone.ts">>, <<"">>} }
  \cup
  { [NoArgs EXCEPT !.path = <<"src/a.ts">>, !.start_line = <<r[1]>>, !.end_line = <<r[2]>>] :
      r \in {<<2, 1>>, <<1, 200>>, <<1, 201>>, <<0, 1>>, <<2, 9>>} }

SearchTextArgs ==
  { [NoArgs EXCEPT !.query = q, !.max_results = m] :
      q \in {<<"key">>, <<"KEY=">>, <<"">>},
      m \in {<<>>, <<1>>} }

BudgetListDirArgs == { [NoArgs EXCEPT !.depth = <<0>>, !.max_entries = <<1>>] }

BudgetReadFileArgs ==
  { [NoArgs EXCEPT !.path = <<"src/a.ts">>, !.start_line = <<1>>, !.end_line = <<n>>] :
      n \in {200, 300} }

BudgetSearchTextArgs == { [NoArgs EXCEPT !.query = <<"key">>] }

NoCall ==
  [tool |-> "none", args |-> NoArgs, err |-> "", out |-> <<>>, access |-> {}, reads |-> {}]

Session == [budgets |-> budgets, totalReadLines |-> totalReadLines, totalCalls |-> totalCalls]

(* the budget kind a tool draws on *)
KindOf(toolName) ==
  CASE toolName = "list_dir" -> "listDir"
    [] toolName = "read_file" -> "readFile"
    [] toolName = "search_text" -> "searchText"
    [] toolName = "read_guidelines" -> "readGuideline"
    [] toolName = "scan_security_sinks" -> "securityScan"
    [] OTHER -> "none"

(* a call that threw none of these reached its budget check *)
ErrorsBeforeBudget == {Err.ordering, Err.readArgs, Err.searchArgs, Err.unknownTool}

Call(toolName, rawArgs, maxCalls) ==
  /\ runPc = "none"
  /\ totalCalls < maxCalls
  /\ \E r \in {call(Session, toolName, rawArgs)} :
     LET kind == KindOf(toolName)
         admitted == /\ kind \in DOMAIN passed
                     /\ r.err \notin (ErrorsBeforeBudget \cup {Err.budget})
     IN
     /\ budgets' = r.st.budgets
     /\ totalReadLines' = r.st.totalReadLines
     /\ totalCalls' = r.st.totalCalls
     /\ lastCall' = [tool |-> toolName, args |-> rawArgs, err |-> r.err, out |-> r.out,
                     access |-> r.access, reads |-> r.reads]
     /\ listDirAttempted' = (listDirAttempted \/ toolName = "list_dir")
     /\ listDirReturned' = (listDirReturned \/ (toolName = "list_dir" /\ r.err = ""))
     /\ passed' = IF admitted THEN [passed EXCEPT ![kind] = @ + 1] ELSE passed
     /\ UNCHANGED <<profile, allowConfigRead, changedFiles>>
     /\ UNCHANGED jobVars
     /\ UNCHANGED runVars
     /\ UNCHANGED fnVars

\* no instance of the tool surface beyond the session's own, no checkout
NoSurfaces == [objects |-> <<>>, sessions |-> <<>>]

NoWorkdir ==
  [directory |-> "none", cleanups |-> 0, session |-> FALSE, setup |-> "none",
   headSha |-> FALSE, command |-> 0, attempt |-> 0, tried |-> <<>>, returned |-> <<>>]

JobIdle ==
  /\ surfaces = NoSurfaces
  /\ workdir = NoWorkdir
  /\ awaiting = <<>>
  /\ pullRuns = <<>>

\* no function-level behaviour is in progress
FnIdle ==
  /\ fnName = "none"
  /\ fnInput = <<>>
  /\ fnOutput = <<>>

RunIdle ==
  /\ workerVersion = "none"
  /\ runPc = "none"
  /\ llmResult = <<>>
  /\ reviews = <<>>
  /\ outcome = "none"

SessionInit ==
  /\ budgets = InitialBudgets(profile)
  /\ totalReadLines = 0
  /\ totalCalls = 0
  /\ lastCall = NoCall
  /\ listDirAttempted = FALSE
  /\ listDirReturned = FALSE
  /\ passed = [k \in DOMAIN InitialBudgets(profile) |-> 0]
  /\ JobIdle

InitTools ==
  /\ profile \in {"conservative", "high"}
  /\ allowConfigRead \in BOOLEAN
  /\ changedFiles \in ChangedFilesChoices
  /\ SessionInit
  /\ RunIdle
  /\ FnIdle

ToolsListDir == \E a \in ListDirArgs : Call("list_dir", a, MaxCallsTools)

ToolsGetChangedFiles == Call("get_changed_files", NoArgs, MaxCallsTools)

ToolsReadFile == \E a \in ReadFileArgs : Call("read_file", a, MaxCallsTools)

ToolsSearchText == \E a \in SearchTextArgs : Call("search_text", a, MaxCallsTools)

ToolsReadGuidelines == Call("read_guidelines", NoArgs, MaxCallsTools)

ToolsScanSecuritySinks == Call("scan_security_sinks", NoArgs, MaxCallsTools)

ToolsUnknownTool == Call("write_file", NoArgs, MaxCallsTools)

NextTools ==
  \/ ToolsListDir
  \/ ToolsGetChangedFiles
  \/ ToolsReadFile
  \/ ToolsSearchText
  \/ ToolsReadGuidelines
  \/ ToolsScanSecuritySinks
  \/ ToolsUnknownTool

SpecTools == InitTools /\ [][NextTools]_vars

InitBudget ==
  /\ profile \in {"conservative", "high"}
  /\ allowConfigRead = FALSE
  /\ changedFiles = <<"src/a.ts">>
  /\ SessionInit
  /\ RunIdle
  /\ FnIdle

BudgetListDir == \E a \in BudgetListDirArgs : Call("list_dir", a, MaxCallsBudget)

BudgetGetChangedFiles == Call("get_changed_files", NoArgs, MaxCallsBudget)

BudgetReadFile == \E a \in BudgetReadFileArgs : Call("read_file", a, MaxCallsBudget)

BudgetSearchText == \E a \in BudgetSearchTextArgs : Call("search_text", a, MaxCallsBudget)

BudgetReadGuidelines == Call("read_guidelines", NoArgs, MaxCallsBudget)

BudgetScanSecuritySinks == Call("scan_security_sinks", NoArgs, MaxCallsBudget)

NextBudget ==
  \/ BudgetListDir
  \/ BudgetGetChangedFiles
  \/ BudgetReadFile
  \/ BudgetSearchText
  \/ BudgetReadGuidelines
  \/ BudgetScanSecuritySinks

SpecBudget == InitBudget /\ [][NextBudget]_vars

\* Calls that overlap on one session.  Nothing in VirtualIdeTools serialises
\* the calls of one instance: a call runs up to its first await, and another
\* call may start before it resumes.  Every tool spends totalCalls and its
\* budget before its first await; read_file alone writes a counter after one:
\* it tests this.totalReadLines before `await readFile(absolutePath, "utf-8")`
\* and adds the requested lines after it.
MaxCallsOverlap == 10

RemoveAt(q, i) == SubSeq(q, 1, i - 1) \o SubSeq(q, i + 1, Len(q))

InitOverlap ==
  /\ profile \in {"conservative", "high"}
  /\ allowConfigRead = FALSE
  /\ changedFiles = <<"src/a.ts">>
  /\ SessionInit
  /\ RunIdle
  /\ FnIdle

\* call() as far as the tool runs without leaving a counter to write: to the
\* end for every tool but read_file, and for read_file to its await, or to the
\* throw that ends it before
CallUntilAwait(toolName, rawArgs) ==
  /\ runPc = "none"
  /\ totalCalls < MaxCallsOverlap
  /\ \E r \in {call(Session, toolName, rawArgs)} :
     \E suspends \in {toolName = "read_file" /\ r.err = ""} :
       /\ budgets' = r.st.budgets
       /\ totalCalls' = r.st.totalCalls
       /\ totalReadLines' = totalReadLines
       /\ passed' = IF r.err \notin (ErrorsBeforeBudget \cup {Err.budget})
                     THEN [passed EXCEPT ![KindOf(toolName)] = @ + 1] ELSE passed
       /\ listDirAttempted' = (listDirAttempted \/ toolName = "list_dir")
       /\ listDirReturned' = (listDirReturned \/ (toolName = "list_dir" /\ r.err = ""))
       /\ awaiting' = IF suspends
                       THEN Append(awaiting, [args |-> rawArgs, out |-> r.out,
                                              access |-> r.access, reads |-> r.reads,
                                              requestedLineCount |->
                                                r.st.totalReadLines - totalReadLines])
                       ELSE awaiting
       /\ lastCall' = IF suspends THEN lastCall
                       ELSE [tool |-> toolName, args |-> rawArgs, err |-> r.err,
                             out |-> r.out, access |-> r.access, reads |-> r.reads]
  /\ UNCHANGED <<profile, allowConfigRead, changedFiles, surfaces, workdir, pullRuns>>
  /\ UNCHANGED runVars
  /\ UNCHANGED fnVars

OverlapListDir == \E a \in BudgetListDirArgs : CallUntilAwait("list_dir", a)

OverlapSearchText == \E a \in BudgetSearchTextArgs : CallUntilAwait("search_text", a)

BeginReadFile == \E a \in BudgetReadFileArgs : CallUntilAwait("read_file", a)

\* a suspended read_file resumes, in any order: it adds its lines and returns
ResumeReadFile ==
  /\ runPc = "none"
  /\ \E i \in 1..Len(awaiting) :
       /\ totalReadLines' = totalReadLines + awaiting[i].requestedLineCount
       /\ lastCall' = [tool |-> "read_file", args |-> awaiting[i].args, err |-> "",
                        out |-> awaiting[i].out, access |-> awaiting[i].access,
                        reads |-> awaiting[i].reads]
       /\ awaiting' = RemoveAt(awaiting, i)
  /\ UNCHANGED <<profile, allowConfigRead, changedFiles, budgets, totalCalls,
                  listDirAttempted, listDirReturned, passed, surfaces, workdir,
                  pullRuns>>
  /\ UNCHANGED runVars
  /\ UNCHANGED fnVars

NextOverlap ==
  \/ OverlapListDir
  \/ OverlapSearchText
  \/ BeginReadFile
  \/ ResumeReadFile

SpecOverlap == InitOverlap /\ [][NextOverlap]_vars

\* Concurrent review runs.  Every run constructs its own VirtualIdeTools
\* (new VirtualIdeTools({...}) in runReviewForPullRequest); the field
\* initialisers of the class run once per instance, so each instance refers to
\* a budgets object of its own.  surfaces.objects holds the budgets objects,
\* surfaces.sessions the instances, each with a reference into objects.  The
\* fields are read and written only in the synchronous stretches of call, so
\* a call is one step and the runs interleave call by call.
MaxRuns == 2

MaxCallsEach == 2

\* a session used by one run alone, as constructed
SoloInit == [budgets |-> InitialBudgets(profile), totalReadLines |-> 0, totalCalls |-> 0]

\* a tool surface whose instances all refer to one budgets object, as a
\* module-level default would give.  The variant that C22_SessionsIsolated
\* tells apart from the code.
newVirtualIdeToolsSharingBudgets(s) ==
  [objects |-> IF s.objects = <<>> THEN <<InitialBudgets(profile)>> ELSE s.objects,
   sessions |-> Append(s.sessions,
                       [budgets |-> 1, totalReadLines |-> 0, totalCalls |-> 0,
                        alone |-> SoloInit])]

newVirtualIdeTools(s) ==
  [objects |-> Append(s.objects, InitialBudgets(profile)),
   sessions |-> Append(s.sessions,
                       [budgets |-> Len(s.objects) + 1, totalReadLines |-> 0,
                        totalCalls |-> 0, alone |-> SoloInit])]

\* the fields of instance i, its budgets object read through the reference
SessionOf(s, i) ==
  [budgets |-> s.objects[s.sessions[i].budgets],
   totalReadLines |-> s.sessions[i].totalReadLines,
   totalCalls |-> s.sessions[i].totalCalls]

\* what the pairs <<session before the call, session after it>> hold for st
AfterCall(pairs, st) == (CHOOSE p \in pairs : p[1] = st)[2]

\* the fields of instance i set to what the pairs hold for them
served(s, i, pairs) ==
  [objects |-> [s.objects EXCEPT ![s.sessions[i].budgets] =
                                   AfterCall(pairs, SessionOf(s, i)).budgets],
   sessions |-> [s.sessions EXCEPT ![i] =
                   [budgets |-> s.sessions[i].budgets,
                    totalReadLines |-> AfterCall(pairs, SessionOf(s, i)).totalReadLines,
                    totalCalls |-> AfterCall(pairs, SessionOf(s, i)).totalCalls,
                    alone |-> AfterCall(pairs, s.sessions[i].alone)]]]

\* instance i serves one call; alone is the same call on a session that no
\* other run can reach
callOn(s, i, toolName, rawArgs) ==
  served(s, i, { <<st, call(st, toolName, rawArgs).st>> :
                   st \in {SessionOf(s, i), s.sessions[i].alone} })

ConcurrentCalls ==
  { [tool |-> "list_dir", args |-> [NoArgs EXCEPT !.depth = <<0>>, !.max_entries = <<1>>]],
    [tool |-> "get_changed_files", args |-> NoArgs],
    [tool |-> "read_file",
     args |-> [NoArgs EXCEPT !.path = <<"src/a.ts">>, !.start_line = <<1>>, !.end_line = <<2>>]],
    [tool |-> "read_file",
     args |-> [NoArgs EXCEPT !.path = <<"src/a.ts">>, !.start_line = <<3>>, !.end_line = <<3>>]],
    [tool |-> "search_text", args |-> [NoArgs EXCEPT !.query = <<"key">>]],
    [tool |-> "read_guidelines", args |-> NoArgs] }

InitConcurrent ==
  /\ profile \in {"conservative", "high"}
  /\ allowConfigRead = FALSE
  /\ changedFiles = <<"src/a.ts">>
  /\ budgets = <<>>
  /\ totalReadLines = 0
  /\ totalCalls = 0
  /\ lastCall = NoCall
  /\ listDirAttempted = FALSE
  /\ listDirReturned = FALSE
  /\ passed = <<>>
  /\ surfaces = NoSurfaces
  /\ workdir = NoWorkdir
  /\ awaiting = <<>>
  /\ pullRuns = <<>>
  /\ RunIdle
  /\ FnIdle

\* a further run starts and constructs its tool surface
OpenRun ==
  /\ fnName = "none"
  /\ runPc = "none"
  /\ Len(surfaces.sessions) < MaxRuns
  /\ surfaces' = newVirtualIdeTools(surfaces)
  /\ UNCHANGED <<profile, allowConfigRead, changedFiles, budgets, totalReadLines,
                 totalCalls, lastCall, listDirAttempted, listDirReturned,
                 passed, awaiting, pullRuns, workdir>>
  /\ UNCHANGED runVars
  /\ UNCHANGED fnVars

\* the engine of run i calls a tool of that run's surface
RunCall ==
  /\ fnName = "none"
  /\ runPc = "none"
  /\ \E i \in DOMAIN surfaces.sessions, c \in ConcurrentCalls :
       /\ surfaces.sessions[i].totalCalls < MaxCallsEach
       /\ surfaces' = callOn(surfaces, i, c.tool, c.args)
  /\ UNCHANGED <<profile, allowConfigRead, changedFiles, budgets, totalReadLines,
                 totalCalls, lastCall, listDirAttempted, listDirReturned,
                 passed, awaiting, pullRuns, workdir>>
  /\ UNCHANGED runVars
  /\ UNCHANGED fnVars

NextConcurrent ==
  \/ OpenRun
  \/ RunCall

SpecConcurrent == InitConcurrent /\ [][NextConcurrent]_vars

\* the fence of a Markdown code block: three grave accents.  A string of this
\* module cannot hold a grave accent, so each is written as a tilde; no other
\* text of the model contains a tilde.
Fence == "~~~"

-----------------------------------------------------------------------------
(* Unified-diff patch -> review position (diff/patch).                     *)

Digits == {"0", "1", "2", "3", "4", "5", "6", "7", "8", "9"}

DigitValue(c) ==
  CASE c = "0" -> 0 [] c = "1" -> 1 [] c = "2" -> 2 [] c = "3" -> 3 [] c = "4" -> 4
    [] c = "5" -> 5 [] c = "6" -> 6 [] c = "7" -> 7 [] c = "8" -> 8 [] c = "9" -> 9

\* s has p at index i
HasAt(s, i, p) == i + Len(p) - 1 <= Len(s) /\ SubSeq(s, i, i + Len(p) - 1) = p

\* the index just after the run of digits that starts at i (i when there is none)
RECURSIVE DigitsEnd(_, _)
DigitsEnd(s, i) ==
  IF i <= Len(s) /\ CharAt(s, i) \in Digits THEN DigitsEnd(s, i + 1) ELSE i

\* Number.parseInt(s, 10) of a string of digits
RECURSIVE ParseInt(_)
ParseInt(s) ==
  IF Len(s) = 0 THEN 0
  ELSE 10 * ParseInt(SubSeq(s, 1, Len(s) - 1)) + DigitValue(CharAt(s, Len(s)))

\* the index after an optional ",\d+" group at i
OptionalCountEnd(s, i) ==
  IF HasAt(s, i, ",") /\ DigitsEnd(s, i + 1) > i + 1 THEN DigitsEnd(s, i + 1) ELSE i

\* /^@@ -(\d+)(?:,\d+)? \+(\d+)(?:,\d+)? @@/ ; <<>> is null
parseHunkHeader(line) ==
  LET oldEnd == DigitsEnd(line, 5)
      oldCountEnd == OptionalCountEnd(line, oldEnd)
      newBegin == oldCountEnd + 2
      newEnd == DigitsEnd(line, newBegin)
      newCountEnd == OptionalCountEnd(line, newEnd)
  IN IF /\ HasAt(line, 1, "@@ -")
        /\ oldEnd > 5
        /\ HasAt(line, oldCountEnd, " +")
        /\ newEnd > newBegin
        /\ HasAt(line, newCountEnd, " @@")
     THEN << [oldStart |-> ParseInt(SubSeq(line, 5, oldEnd - 1)),
              newStart |-> ParseInt(SubSeq(line, newBegin, newEnd - 1))] >>
     ELSE <<>>

\* the loop of buildAddedLineToPositionMap over the patch's lines; map is a
\* function from new-file line numbers to positions
RECURSIVE positionLoop(_, _, _, _, _)
positionLoop(lines, newLine, hasActiveHunk, position, map) ==
  IF lines = <<>> THEN map
  ELSE
    LET line == Head(lines)
        rest == Tail(lines)
    IN
    IF StartsWith(line, "@@ ") THEN
      LET hunk == parseHunkHeader(line)
      IN IF hunk = <<>> THEN positionLoop(rest, newLine, hasActiveHunk, position, map)
         ELSE positionLoop(rest, hunk[1].newStart, TRUE, position, map)
    ELSE IF ~hasActiveHunk THEN positionLoop(rest, newLine, hasActiveHunk, position, map)
    ELSE IF StartsWith(line, "\\") THEN positionLoop(rest, newLine, hasActiveHunk, position, map)
    ELSE IF StartsWith(line, "+") /\ ~StartsWith(line, "+++") THEN
      positionLoop(rest, newLine + 1, hasActiveHunk, position + 1,
                   [n \in DOMAIN map \cup {newLine} |->
                      IF n = newLine THEN position + 1 ELSE map[n]])
    ELSE IF StartsWith(line, "-") /\ ~StartsWith(line, "---") THEN
      positionLoop(rest, newLine, hasActiveHunk, position + 1, map)
    ELSE IF StartsWith(line, " ") THEN
      positionLoop(rest, newLine + 1, hasActiveHunk, position + 1, map)
    ELSE positionLoop(rest, newLine, hasActiveHunk, position, map)

\* a variant that gives every added line its own number as its position
rawLineMap(patch) ==
  [n \in DOMAIN positionLoop(Split(patch, "\n"), 0, FALSE, 0, [k \in {} |-> 0]) |-> n]

\* a variant whose position counter starts at one, as if the first hunk header
\* counted as a position
buildMapCountingHeader(patch) ==
  positionLoop(Split(patch, "\n"), 0, FALSE, 1, [n \in {} |-> 0])

buildAddedLineToPositionMap(patch) ==
  positionLoop(Split(patch, "\n"), 0, FALSE, 0, [n \in {} |-> 0])

\* match?.[2] of /^diff --git a\/(.+?) b\/(.+)$/ ; <<>> is undefined.  The dot
\* matches no line terminator, and the lazy first group ends at the first
\* " b/" that leaves a non-empty second group.
diffGitSecondPath(line) ==
  LET seps == {k \in 15..(Len(line) - 3) : HasAt(line, k, " b/")}
  IN IF /\ HasAt(line, 1, "diff --git a/")
        /\ \A i \in 14..Len(line) : CharAt(line, i) \notin {"\n", "\r"}
        /\ seps # {}
     THEN << SubSeq(line, (CHOOSE k \in seps : \A m \in seps : k <= m) + 3, Len(line)) >>
     ELSE <<>>

\* result.set(key, value) on a Map kept as a function
MapSet(map, key, value) ==
  [k \in DOMAIN map \cup {key} |-> IF k = key THEN value ELSE map[k]]

\* a variant that keeps the whole block of the file, its preamble included
blockText(currentLines, hunkIndexes) == TrimEnd(Join(currentLines, "\n"))

\* currentLines.slice(firstHunkIndex).join("\n").trimEnd()
hunkText(currentLines, hunkIndexes) ==
  TrimEnd(Join(SubSeq(currentLines,
                      CHOOSE i \in hunkIndexes : \A j \in hunkIndexes : i <= j,
                      Len(currentLines)), "\n"))

\* the closure flush of extractPatchByFile, returning the result map
flush(result, currentPath, currentLines) ==
  IF currentPath = <<>> \/ currentPath = <<"">> \/ Len(currentLines) = 0 THEN result
  ELSE IF \A i \in DOMAIN currentLines : ~StartsWith(currentLines[i], "@@ ") THEN result
  ELSE IF hunkText(currentLines,
                   {i \in DOMAIN currentLines : StartsWith(currentLines[i], "@@ ")}) = ""
       THEN result
  ELSE MapSet(result, currentPath[1],
              hunkText(currentLines,
                       {i \in DOMAIN currentLines : StartsWith(currentLines[i], "@@ ")}))

\* the loop of extractPatchByFile over the lines of the diff, then the last flush
RECURSIVE extractLoop(_, _, _, _)
extractLoop(lines, result, currentPath, currentLines) ==
  IF lines = <<>> THEN flush(result, currentPath, currentLines)
  ELSE IF StartsWith(Head(lines), "diff --git ") THEN
    extractLoop(Tail(lines), flush(result, currentPath, currentLines),
                diffGitSecondPath(Head(lines)), <<>>)
  ELSE IF currentPath # <<>> /\ currentPath # <<"">> THEN
    extractLoop(Tail(lines), result, currentPath, Append(currentLines, Head(lines)))
  ELSE extractLoop(Tail(lines), result, currentPath, currentLines)

extractPatchByFile(diffText) ==
  extractLoop(Split(diffText, "\n"), [k \in {} |-> ""], <<>>, <<>>)

-----------------------------------------------------------------------------
(* Suggestion bodies (the review provider): the duplicate collapse and the  *)
(* body check that normalizeResult applies to every item.                   *)

\* lines.slice(from, to), the bounds counted from zero
sliceLines(lines, from, to) == SubSeq(lines, from + 1, Min(to, Len(lines)))

\* the for loop of dedupeConsecutiveDuplicateBlock from the given size on;
\* whole is content.trim()
RECURSIVE dedupeLoop(_, _, _)
dedupeLoop(lines, size, whole) ==
  IF size > Len(lines) \div 2 THEN whole
  ELSE IF Join(sliceLines(lines, 0, size), "\n") = Join(sliceLines(lines, size, size * 2), "\n")
       THEN Trim(Join(sliceLines(lines, 0, size), "\n"))
  ELSE IF /\ Join(sliceLines(lines, size * 2, size * 3), "\n") # ""
          /\ Join(sliceLines(lines, 0, size), "\n")
               = Join(sliceLines(lines, size * 2, size * 3), "\n")
       THEN Trim(Join(sliceLines(lines, 0, size), "\n"))
  ELSE dedupeLoop(lines, size + 1, whole)

\* content.trim().split("\n").map((line) => line.trimEnd())
trimmedLines(content) ==
  [i \in 1..Len(Split(Trim(content), "\n")) |-> TrimEnd(Split(Trim(content), "\n")[i])]

dedupeConsecutiveDuplicateBlock(content) ==
  IF Len(trimmedLines(content)) < 2 THEN Trim(content)
  ELSE dedupeLoop(trimmedLines(content), 1, Trim(content))

\* the index of the first occurrence of p in s at or after from, 0 when none
indexOfFrom(s, p, from) ==
  IF \E k \in from..Len(s) : HasAt(s, k, p)
  THEN CHOOSE k \in from..Len(s) :
         HasAt(s, k, p) /\ \A m \in from..(k - 1) : ~HasAt(s, m, p)
  ELSE 0

\* the match of /(fence)suggestion\n([\s\S]*?)\n(fence)/m that starts at open:
\* where it starts, its group 1, and where match[0] ends; <<>> without a match
blockMatchAt(body, open, close) ==
  IF open = 0 \/ close = 0 THEN <<>>
  ELSE << [index |-> open,
           content |-> SubSeq(body, open + Len(Fence) + 11, close - 1),
           last |-> close + Len(Fence)] >>

\* the regular expression's first match in body: the lazy group ends at the
\* first line break that a fence follows
blockMatch(body) ==
  blockMatchAt(body, indexOfFrom(body, Fence \o "suggestion\n", 1),
               IF indexOfFrom(body, Fence \o "suggestion\n", 1) = 0 THEN 0
               ELSE indexOfFrom(body, "\n" \o Fence,
                                indexOfFrom(body, Fence \o "suggestion\n", 1)
                                  + Len(Fence) + 11))

\* sanitizeSuggestionBody after its match: match is the record of blockMatch
\* and clean the collapsed block content
cleanBodyOf(body, match, clean) ==
  IF Len(Split(clean, "\n")) = 0 \/ Len(Split(clean, "\n")) > 10 THEN <<>>
  ELSE << Trim(SubSeq(body, 1, match.index - 1)
               \o "\n" \o Fence \o "suggestion\n" \o clean \o "\n" \o Fence
               \o SubSeq(body, match.last + 1, Len(body))) >>

\* <<>> is null, <<cleanBody>> the body that is admitted
sanitizeSuggestionBody(body) ==
  IF ~Includes(body, Fence \o "suggestion") THEN <<>>
  ELSE IF blockMatch(body) = <<>> THEN <<>>
  ELSE cleanBodyOf(body, blockMatch(body)[1],
                   dedupeConsecutiveDuplicateBlock(blockMatch(body)[1].content))

\* a raw item of the parsed output; a field the output lacks is <<>>
RawItem(path, line, body) == [path |-> path, line |-> line, body |-> body]

\* the suggestion that normalizeResult pushes for an item that passed its tests
normalizedItem(item) ==
  [path |-> IF StartsWith(item.path[1], "./")
            THEN SubSeq(item.path[1], 3, Len(item.path[1])) ELSE item.path[1],
   line |-> item.line[1],
   body |-> sanitizeSuggestionBody(item.body[1])[1]]

\* the for loop of normalizeResult over payload.suggestions
RECURSIVE normalizeItems(_, _)
normalizeItems(items, suggestions) ==
  IF items = <<>> THEN suggestions
  ELSE IF FalsyString(Head(items).path) THEN normalizeItems(Tail(items), suggestions)
  ELSE IF Head(items).line = <<>> \/ Head(items).line[1] <= 0
       THEN normalizeItems(Tail(items), suggestions)
  ELSE IF FalsyString(Head(items).body) THEN normalizeItems(Tail(items), suggestions)
  ELSE IF sanitizeSuggestionBody(Head(items).body[1]) = <<>>
       THEN normalizeItems(Tail(items), suggestions)
  ELSE IF Len(suggestions) + 1 >= 999
       THEN Append(suggestions, normalizedItem(Head(items)))
  ELSE normalizeItems(Tail(items), Append(suggestions, normalizedItem(Head(items))))

\* raw is the parsed output, each field <<>> when absent
normalizeResult(raw) ==
  [suggestions |-> normalizeItems(raw.suggestions, <<>>),
   overallStatus |->
     IF raw.overallStatus \in {<<"ok">>, <<"uncertain">>} THEN raw.overallStatus ELSE <<>>,
   allowAutoApprove |-> raw.allowAutoApprove = <<TRUE>>,
   overallComment |->
     IF raw.overallComment = <<>> THEN <<>> ELSE << Trim(raw.overallComment[1]) >>]

\* the preview loop of generateSuggestions; unsafe holds the path:line keys
\* for which previewSuggestion answers isSafe false
RECURSIVE validateLoop(_, _, _, _, _)
validateLoop(suggestions, seen, validatedSuggestions, previewChecks, unsafe) ==
  IF suggestions = <<>> \/ previewChecks >= 120 THEN validatedSuggestions
  ELSE IF (Head(suggestions).path \o ":" \o ToString(Head(suggestions).line)) \in seen
       THEN validateLoop(Tail(suggestions), seen, validatedSuggestions, previewChecks, unsafe)
  ELSE validateLoop(Tail(suggestions),
                    seen \cup {Head(suggestions).path \o ":" \o ToString(Head(suggestions).line)},
                    IF (Head(suggestions).path \o ":" \o ToString(Head(suggestions).line))
                         \in unsafe
                    THEN validatedSuggestions
                    ELSE Append(validatedSuggestions, Head(suggestions)),
                    previewChecks + 1, unsafe)

-----------------------------------------------------------------------------
(* The review payload (workers/process-pr), in the three versions of the   *)
(* worker that the repository contains.                                    *)

VersionEarly == "process-pr.ts"
VersionGated == "part_005"
VersionDismissing == "part_004"
WorkerVersions == {VersionEarly, VersionGated, VersionDismissing}

REVIEW_OK_COMMENT == "REVIEW_OK: No actionable issues found in changed lines."

InsufficientConfidenceComment ==
  "Review completed without auto-approval because confidence was insufficient."

DefaultReviewBody == "Automated review comments from @deniai-app."

MAX_FALLBACK_SUGGESTIONS == 12

MaxInlineComments == 20

\* path.replace(/^\.\//, "").replaceAll("\\", "/")
normalizePath(path) ==
  ReplaceAll(IF StartsWith(path, "./") THEN SubSeq(path, 3, Len(path)) ELSE path,
             "\\", "/")

\* a pull request file; patch is <<>> when GitHub sent none
PrFile(filename, patch) == [filename |-> filename, patch |-> patch]

\* new Map(...) over the files: the file a key maps to, <<>> when absent.
\* A later entry for the same key replaces an earlier one.
RECURSIVE MapGet(_, _)
MapGet(entries, key) ==
  IF entries = <<>> THEN <<>>
  ELSE LET last == entries[Len(entries)]
       IN IF last.key = key THEN <<last.file>>
          ELSE MapGet(SubSeq(entries, 1, Len(entries) - 1), key)

RECURSIVE fileMapEntries(_, _)
fileMapEntries(version, files) ==
  IF files = <<>> THEN <<>>
  ELSE LET file == Head(files)
       IN (IF version = VersionDismissing
           THEN << [key |-> file.filename, file |-> file],
                   [key |-> normalizePath(file.filename), file |-> file] >>
           ELSE << [key |-> file.filename, file |-> file] >>)
          \o fileMapEntries(version, Tail(files))

lookupFile(version, entries, path) ==
  LET direct == MapGet(entries, path)
  IN IF version = VersionDismissing /\ direct = <<>>
     THEN MapGet(entries, "./" \o path)
     ELSE direct

\* one fallback item, as the version records it
fallbackItem(version, suggestion, path, reason) ==
  IF version = VersionEarly
  THEN [path |-> path, line |-> suggestion.line, body |-> suggestion.body]
  ELSE [path |-> path, line |-> suggestion.line, reason |-> reason]

\* the state of the loop after recording that a suggestion has no position
pushFallback(version, acc, suggestion, path, reason, keySuffix) ==
  LET key == path \o ":" \o ToString(suggestion.line) \o ":" \o keySuffix
      item == fallbackItem(version, suggestion, path, reason)
  IN IF version = VersionDismissing
     THEN IF key \in acc.fallbackSeen THEN acc
          ELSE [acc EXCEPT !.fallbackSeen = @ \cup {key},
                           !.fallbackItems = Append(@, item)]
     ELSE [acc EXCEPT !.fallbackItems = Append(@, item)]

\* a variant of the loop that admits a comment without looking it up in seen
RECURSIVE payloadLoopKeepingRepeats(_, _, _, _)
payloadLoopKeepingRepeats(version, entries, suggestions, acc) ==
  IF suggestions = <<>> THEN acc
  ELSE
    LET suggestion == Head(suggestions)
        rest == Tail(suggestions)
        path == normalizePath(suggestion.path)
        file == lookupFile(version, entries, path)
    IN
    IF file = <<>> \/ file[1].patch = <<>> \/ file[1].patch = <<"">> THEN
      payloadLoopKeepingRepeats(version, entries, rest,
                                pushFallback(version, acc, suggestion, path,
                                             "patch is unavailable", "missing-patch"))
    ELSE IF suggestion.line \notin DOMAIN buildAddedLineToPositionMap(file[1].patch[1]) THEN
      payloadLoopKeepingRepeats(version, entries, rest,
                                pushFallback(version, acc, suggestion, path,
                                             "line is not an added diff line", "not-added"))
    ELSE
      LET next == [acc EXCEPT
                     !.comments =
                       Append(@, [path |-> path,
                                  position |->
                                    buildAddedLineToPositionMap(file[1].patch[1])[suggestion.line],
                                  body |-> suggestion.body])]
      IN IF Len(next.comments) >= MaxInlineComments THEN next
         ELSE payloadLoopKeepingRepeats(version, entries, rest, next)

\* the for loop of buildReviewPayload
RECURSIVE payloadLoop(_, _, _, _)
payloadLoop(version, entries, suggestions, acc) ==
  IF suggestions = <<>> THEN acc
  ELSE
    LET suggestion == Head(suggestions)
        rest == Tail(suggestions)
        path == normalizePath(suggestion.path)
        file == lookupFile(version, entries, path)
    IN
    IF file = <<>> \/ file[1].patch = <<>> \/ file[1].patch = <<"">> THEN
      payloadLoop(version, entries, rest,
                  pushFallback(version, acc, suggestion, path,
                               "patch is unavailable", "missing-patch"))
    ELSE
      LET positionMap == buildAddedLineToPositionMap(file[1].patch[1])
      IN
      IF suggestion.line \notin DOMAIN positionMap THEN
        payloadLoop(version, entries, rest,
                    pushFallback(version, acc, suggestion, path,
                                 "line is not an added diff line", "not-added"))
      ELSE
        LET position == positionMap[suggestion.line]
            key == path \o ":" \o ToString(position) \o ":" \o suggestion.body
        IN
        IF key \in acc.seen THEN payloadLoop(version, entries, rest, acc)
        ELSE
          LET next == [acc EXCEPT
                         !.seen = @ \cup {key},
                         !.comments = Append(@, [path |-> path, position |-> position,
                                                 body |-> suggestion.body])]
          IN IF Len(next.comments) >= MaxInlineComments THEN next
             ELSE payloadLoop(version, entries, rest, next)

\* items.map(...) of buildFallbackSection, per version
RECURSIVE fallbackLines(_, _)
fallbackLines(version, items) ==
  IF items = <<>> THEN <<>>
  ELSE LET item == Head(items)
           where == item.path \o ":" \o ToString(item.line)
       IN (IF version = VersionEarly
           THEN << "\n" \o where, item.body >>
           ELSE << "- " \o where \o " (" \o item.reason \o ")" >>)
          \o fallbackLines(version, Tail(items))

buildFallbackSection(version, items) ==
  LET all == fallbackLines(version, items)
      counted == ToString(Len(items)) \o " suggestion(s) could not be attached inline:"
      lines ==
        IF version = VersionEarly THEN
          << "Some suggestions could not be attached inline (missing/ambiguous diff position):" >>
          \o all
        ELSE IF version = VersionGated THEN <<counted>> \o all
        ELSE <<counted>> \o SubSeq(all, 1, Min(Len(all), MAX_FALLBACK_SUGGESTIONS))
             \o (IF Len(all) > MAX_FALLBACK_SUGGESTIONS
                 THEN << "- ... and " \o ToString(Len(all) - MAX_FALLBACK_SUGGESTIONS)
                         \o " more" >>
                 ELSE <<>>)
  IN Trim(Join(lines, "\n"))

NullPayload == [isNull |-> TRUE, comments |-> <<>>, body |-> <<>>]

\* bodyParts.join("\n\n").trim() || undefined
joinBody(bodyParts) ==
  IF Trim(Join(bodyParts, "\n\n")) = "" THEN <<>> ELSE << Trim(Join(bodyParts, "\n\n")) >>

\* the bodyParts of buildReviewPayload after its three pushes
bodyPartsOf(version, acc, overallComment) ==
  IF /\ ~(overallComment # <<>> /\ Len(Trim(overallComment[1])) > 0)
     /\ Len(acc.fallbackItems) = 0
  THEN IF Len(acc.comments) > 0 THEN <<DefaultReviewBody>> ELSE <<>>
  ELSE (IF overallComment # <<>> /\ Len(Trim(overallComment[1])) > 0
        THEN << Trim(overallComment[1]) >> ELSE <<>>)
       \o (IF Len(acc.fallbackItems) > 0
           THEN << buildFallbackSection(version, acc.fallbackItems) >> ELSE <<>>)

\* a variant that returns a payload even when there is nothing to post
payloadNeverNull(comments, body) == [isNull |-> FALSE, comments |-> comments, body |-> body]

\* the value buildReviewPayload returns for the loop's comments and the body
payloadOf(comments, body) ==
  IF Len(comments) = 0 /\ body = <<>> THEN NullPayload
  ELSE [isNull |-> FALSE, comments |-> comments, body |-> body]

\* the part of buildReviewPayload after its for loop
finishPayload(version, acc, overallComment) ==
  payloadOf(acc.comments, joinBody(bodyPartsOf(version, acc, overallComment)))

\* overallComment is <<>> when undefined; the result's body is <<>> when undefined
buildReviewPayload(version, suggestions, overallComment, files) ==
  finishPayload(version,
                payloadLoop(version, fileMapEntries(version, files), suggestions,
                            [comments |-> <<>>, fallbackItems |-> <<>>,
                             seen |-> {}, fallbackSeen |-> {}]),
                overallComment)

-----------------------------------------------------------------------------
(* runReviewForPullRequest: the approval gate and what the run posts.      *)

\* llmResult.overallComment?.trim(), <<>> when there is no comment
trimmedComment(result) ==
  IF result.overallComment = <<>> THEN <<>> ELSE << Trim(result.overallComment[1]) >>

explicitReviewOk(result) == trimmedComment(result) = <<REVIEW_OK_COMMENT>>

explicitApprovalKey(result) == result.allowAutoApprove = <<TRUE>>

canApprove(version, result) ==
  IF version = VersionEarly
  THEN Len(result.suggestions) = 0 /\ explicitReviewOk(result)
  ELSE /\ result.overallStatus = <<"ok">>
       /\ Len(result.suggestions) = 0
       /\ (explicitReviewOk(result) \/ explicitApprovalKey(result))

\* value || fallback, for an optional string
OrString(opt, fallback) == IF opt = <<>> \/ opt = <<"">> THEN fallback ELSE opt

\* the body of the APPROVE review
approvalBody(version, result) ==
  IF version = VersionEarly
  THEN OrString(trimmedComment(result), <<REVIEW_OK_COMMENT>>)
  ELSE <<REVIEW_OK_COMMENT>>

\* the overallComment handed to buildReviewPayload
safeOverallComment(version, result) ==
  IF version = VersionEarly THEN result.overallComment
  ELSE OrString(trimmedComment(result),
                IF Len(result.suggestions) = 0 THEN <<InsufficientConfidenceComment>>
                ELSE <<>>)

\* dismissExistingBotApprovals: every APPROVED review of the bot is dismissed
dismissExistingBotApprovals(rs) ==
  [i \in DOMAIN rs |->
     IF rs[i].state = "APPROVED" THEN [rs[i] EXCEPT !.state = "DISMISSED"] ELSE rs[i]]

\* createPullRequestReview appended to the pull request's reviews
createPullRequestReview(rs, event, body, comments) ==
  Append(rs, [event |-> event,
              state |-> IF event = "APPROVE" THEN "APPROVED" ELSE "COMMENTED",
              body |-> body, comments |-> comments])

-----------------------------------------------------------------------------
(* The mention trigger of the comment and review event handlers.           *)

\* reviewTriggerMention when GITHUB_REVIEW_TRIGGER_MENTION is not set
DefaultTriggerMention == "@deniai-app"

\* [a-z0-9-] and [a-z0-9] under the i flag
IsNameChar(c) == IndexOf("abcdefghijklmnopqrstuvwxyz0123456789-", LowerChar(c)) > 0

IsAlnumChar(c) == IsNameChar(c) /\ c # "-"

IsIdChar(c) == IsNameChar(c) \/ c = "_"

\* 1-based index of the first occurrence of q in s at or after from, 0 if none
IndexOfFrom(s, q, from) ==
  LET found == {i \in from..(Len(s) - Len(q) + 1) : SubSeq(s, i, i + Len(q) - 1) = q}
  IN IF found = {} THEN 0 ELSE CHOOSE i \in found : \A j \in found : i <= j

\* s.replace(open [^]*? close, "") with the g flag: each leftmost section from
\* a delimiter to the next one is removed
RECURSIVE RemoveSections(_, _)
RemoveSections(s, fence) ==
  LET open == IndexOfFrom(s, fence, 1)
      close == IF open = 0 THEN 0 ELSE IndexOfFrom(s, fence, open + Len(fence))
  IN IF close = 0 THEN s
     ELSE SubSeq(s, 1, open - 1)
          \o RemoveSections(SubSeq(s, close + Len(fence), Len(s)), fence)

\* the grave accent of a code span, written as a tilde like those of Fence
Backtick == "~"

stripCodeLikeSections(body) == RemoveSections(RemoveSections(body, Fence), Backtick)

\* the last index of the run of characters of one class that starts at i
RECURSIVE RunEnd(_, _, _)
RunEnd(s, i, ids) ==
  IF i <= Len(s) /\ (IF ids THEN IsIdChar(CharAt(s, i)) ELSE IsNameChar(CharAt(s, i)))
  THEN RunEnd(s, i + 1, ids) ELSE i - 1

\* /^[a-z0-9](?:[a-z0-9-]{0,38}[a-z0-9])?$/ on a run of name characters
IsUsername(name) ==
  /\ Len(name) \in 1..40
  /\ \A i \in 1..Len(name) : IsNameChar(CharAt(name, i))
  /\ IsAlnumChar(CharAt(name, 1))
  /\ IsAlnumChar(CharAt(name, Len(name)))

\* the matches of GITHUB_USERNAME_MENTION_PATTERN and of
\* GITHUB_USER_ID_MENTION_PATTERN in the body outside code
extractMentionCandidates(body) ==
  LET text == stripCodeLikeSections(body)
      name(i) == SubSeq(text, i + 1, RunEnd(text, i + 1, FALSE))
      id(i) == SubSeq(text, i + 2, RunEnd(text, i + 2, TRUE))
  IN [usernames |->
        { ToLowerCase(name(i)) :
            i \in { k \in 1..Len(text) :
                      /\ CharAt(text, k) = "@"
                      /\ (k = 1 \/ ~IsNameChar(CharAt(text, k - 1)))
                      /\ IsUsername(name(k)) } },
      userIds |->
        { ToLowerCase(id(i)) :
            i \in { k \in 1..(Len(text) - 1) :
                      /\ SubSeq(text, k, k + 1) = "<@"
                      /\ Len(id(k)) > 0
                      /\ k + 2 + Len(id(k)) <= Len(text)
                      /\ CharAt(text, k + 2 + Len(id(k))) = ">" } }]

parseMentionTarget(rawMention) ==
  LET trimmedMention == Trim(rawMention)
      inner == SubSeq(trimmedMention, 3, Len(trimmedMention) - 1)
      normalizedUsername ==
        ToLowerCase(IF StartsWith(trimmedMention, "@")
                    THEN SubSeq(trimmedMention, 2, Len(trimmedMention))
                    ELSE trimmedMention)
  IN IF Len(trimmedMention) = 0 THEN [kind |-> "null", value |-> ""]
     ELSE IF /\ StartsWith(trimmedMention, "<@")
             /\ EndsWith(trimmedMention, ">")
             /\ Len(inner) > 0
             /\ \A i \in 1..Len(inner) : IsIdChar(CharAt(inner, i))
          THEN [kind |-> "user_id", value |-> ToLowerCase(inner)]
     ELSE IF ~IsUsername(normalizedUsername) THEN [kind |-> "null", value |-> ""]
     ELSE [kind |-> "username", value |-> normalizedUsername]

containsMention(body, mention) ==
  LET target == parseMentionTarget(mention)
      candidates == extractMentionCandidates(body)
  IN IF target.kind = "null" THEN FALSE
     ELSE IF target.kind = "user_id" THEN target.value \in candidates.userIds
     ELSE target.value \in candidates.usernames

isDeniAiSystemComment(body) ==
  \/ Includes(body, "<!-- deniai:reviewing:start -->")
  \/ Includes(body, "<!-- deniai:reviewing:end -->")

\* processPullRequestReviewEvent on the event of a submitted review: TRUE when
\* it goes on to runReviewWithProgressTracking (`body` is <<>> for a review
\* without a body, read as "")
processPullRequestReviewEvent(body, triggerMention) ==
  LET reviewBody == IF body = <<>> THEN "" ELSE body[1]
  IN /\ ~isDeniAiSystemComment(reviewBody)
     /\ containsMention(reviewBody, triggerMention)

-----------------------------------------------------------------------------
(* The review run as a state machine: one pull request, reviewed again on  *)
(* each later event.                                                       *)

MaxReviews == 2

\* the pull request's files: one with a two-hunk patch, one stored under a
\* "./" name, one without a patch
RunFiles ==
  << PrFile("src/a.ts",
            <<"@@ -1,2 +1,3 @@\n a\n+b\n c\n@@ -8 +9,2 @@ fn\n-x\n+y\n+z\n\\ No newline at end of file">>),
     PrFile("./lib/c.ts", <<"@@ -0,0 +1 @@\n+only">>),
     PrFile("b.ts", <<>>) >>

Suggestion(path, line, body) == [path |-> path, line |-> line, body |-> body]

SuggestionChoices ==
  { <<>>,
    << Suggestion("src/a.ts", 2, "use const") >>,
    << Suggestion("src/a.ts", 3, "context line"), Suggestion("b.ts", 1, "no patch"),
       Suggestion("b.ts", 1, "no patch again") >>,
    << Suggestion("./src/a.ts", 10, "rename"), Suggestion("src\\a.ts", 10, "rename"),
       Suggestion("lib/c.ts", 1, "check input"), Suggestion("gone.ts", 4, "stale") >> }

OverallStatusChoices == { <<>>, <<"ok">>, <<"uncertain">> }

OverallCommentChoices ==
  { <<>>, <<"">>, <<"  " \o REVIEW_OK_COMMENT \o "\n">>, <<"Looks fine to me.">> }

AllowAutoApproveChoices == { <<>>, <<TRUE>>, <<FALSE>> }

LlmResults ==
  [suggestions : SuggestionChoices, overallStatus : OverallStatusChoices,
   overallComment : OverallCommentChoices, allowAutoApprove : AllowAutoApproveChoices]

ToolsIdle ==
  /\ profile = "none"
  /\ allowConfigRead = FALSE
  /\ changedFiles = <<>>
  /\ budgets = <<>>
  /\ totalReadLines = 0
  /\ totalCalls = 0
  /\ lastCall = NoCall
  /\ listDirAttempted = FALSE
  /\ listDirReturned = FALSE
  /\ passed = <<>>
  /\ JobIdle

InitRun ==
  /\ ToolsIdle
  /\ FnIdle
  /\ workerVersion \in WorkerVersions
  /\ runPc = "start"
  /\ llmResult = <<>>
  /\ reviews = <<>>
  /\ outcome = "none"

\* which of the bot's approvals the dismissal calls may fail on
ApprovedIndices(rs) == {i \in DOMAIN rs : rs[i].state = "APPROVED"}

\* the reviews after the run's dismissal step (a step only part_004 has)
afterDismissal(version, rs, failed) ==
  IF version = VersionDismissing
  THEN [i \in DOMAIN rs |-> IF i \in failed THEN rs[i] ELSE dismissExistingBotApprovals(rs)[i]]
  ELSE rs

\* the payload the run builds from a result
reviewPayload(version, result) ==
  buildReviewPayload(version, result.suggestions, safeOverallComment(version, result),
                     RunFiles)

\* where the run stands once the body of its try block has returned or thrown:
\* with a checkout open the finally block runs before the caller hears of it
afterBody == IF workdir.session THEN "finally" ELSE "done"

\* deps.llmProvider.generateSuggestions returns
GenerateSuggestions ==
  /\ runPc = "start"
  /\ \E r \in LlmResults : llmResult' = <<r>>
  /\ runPc' = "decide"
  /\ UNCHANGED <<workerVersion, reviews, outcome>>
  /\ UNCHANGED toolVars
  /\ UNCHANGED fnVars

\* the canApprove branch
ApproveRun ==
  /\ runPc = "decide"
  /\ canApprove(workerVersion, llmResult[1])
  /\ \E failed \in SUBSET ApprovedIndices(reviews) :
       reviews' = createPullRequestReview(afterDismissal(workerVersion, reviews, failed),
                                          "APPROVE",
                                          approvalBody(workerVersion, llmResult[1]), <<>>)
  /\ outcome' = "approved"
  /\ runPc' = afterBody
  /\ UNCHANGED <<workerVersion, llmResult>>
  /\ UNCHANGED toolVars
  /\ UNCHANGED fnVars

\* buildReviewPayload returned null
NoSafeSuggestions ==
  /\ runPc = "decide"
  /\ ~canApprove(workerVersion, llmResult[1])
  /\ reviewPayload(workerVersion, llmResult[1]).isNull
  /\ outcome' = "no_suggestions"
  /\ runPc' = afterBody
  /\ UNCHANGED <<workerVersion, llmResult, reviews>>
  /\ UNCHANGED toolVars
  /\ UNCHANGED fnVars

\* the COMMENT review is posted
PostReview ==
  /\ runPc = "decide"
  /\ ~canApprove(workerVersion, llmResult[1])
  /\ \E payload \in {reviewPayload(workerVersion, llmResult[1])} :
       /\ ~payload.isNull
       /\ \E failed \in SUBSET ApprovedIndices(reviews) :
            reviews' = createPullRequestReview(
                         afterDismissal(workerVersion, reviews, failed),
                         "COMMENT", payload.body, payload.comments)
  /\ outcome' = "posted"
  /\ runPc' = afterBody
  /\ UNCHANGED <<workerVersion, llmResult>>
  /\ UNCHANGED toolVars
  /\ UNCHANGED fnVars

\* createPullRequestReview throws: the run ends in error after its dismissal step
ReviewRequestFails ==
  /\ runPc = "decide"
  /\ \/ canApprove(workerVersion, llmResult[1])
     \/ ~reviewPayload(workerVersion, llmResult[1]).isNull
  /\ \E failed \in SUBSET ApprovedIndices(reviews) :
       reviews' = afterDismissal(workerVersion, reviews, failed)
  /\ outcome' = "error"
  /\ runPc' = afterBody
  /\ UNCHANGED <<workerVersion, llmResult>>
  /\ UNCHANGED toolVars
  /\ UNCHANGED fnVars

\* a later event on the same pull request starts the next run
NextEvent ==
  /\ runPc = "done"
  /\ Len(reviews) < MaxReviews
  /\ runPc' = "start"
  /\ llmResult' = <<>>
  /\ outcome' = "none"
  /\ UNCHANGED <<workerVersion, reviews>>
  /\ UNCHANGED toolVars
  /\ UNCHANGED fnVars

NextRun ==
  \/ GenerateSuggestions
  \/ ApproveRun
  \/ NoSafeSuggestions
  \/ PostReview
  \/ ReviewRequestFails
  \/ NextEvent

SpecRun == InitRun /\ [][NextRun]_vars

\* Runs that overlap on one pull request.  The webhook handler starts the task
\* of every accepted event and answers without awaiting it, and nothing
\* serialises the runs of one pull request: their steps interleave at their
\* awaits.  The runs are those of part_004, and every API call succeeds.
MaxPullRuns == 3

\* engine results of the runs: one that approves, one that gets comments
PullRunResults ==
  { [suggestions |-> <<>>, overallStatus |-> <<"ok">>, overallComment |-> <<>>,
     allowAutoApprove |-> <<TRUE>>],
    [suggestions |-> << Suggestion("src/a.ts", 2, "use const") >>, overallStatus |-> <<>>,
     overallComment |-> <<>>, allowAutoApprove |-> <<>>] }

\* the least member of a non-empty set of review indices
FirstIndex(indices) == CHOOSE i \in indices : \A j \in indices : i <= j

InitPullRuns ==
  /\ ToolsIdle
  /\ FnIdle
  /\ workerVersion = VersionDismissing
  /\ runPc = "none"
  /\ llmResult = <<>>
  /\ reviews = <<>>
  /\ outcome = "none"

\* an event starts a run; startedAt is the number of reviews on the pull
\* request then, and the engine's result is what the run decides on
StartPullRun ==
  /\ workerVersion = VersionDismissing
  /\ Len(pullRuns) < MaxPullRuns
  /\ \E result \in PullRunResults :
       pullRuns' = Append(pullRuns, [pc |-> "list", result |-> result,
                                     startedAt |-> Len(reviews), approvals |-> {},
                                     created |-> 0])
  /\ UNCHANGED <<profile, allowConfigRead, changedFiles, budgets, totalReadLines,
                  totalCalls, lastCall, listDirAttempted, listDirReturned, passed,
                  surfaces, workdir, awaiting>>
  /\ UNCHANGED runVars
  /\ UNCHANGED fnVars

\* dismissExistingBotApprovals: listPullRequestReviews returns, and the filter
\* keeps the bot's APPROVED reviews of that moment
ListApprovals ==
  /\ \E r \in DOMAIN pullRuns :
       /\ pullRuns[r].pc = "list"
       /\ pullRuns' = [pullRuns EXCEPT ![r].pc = "dismiss",
                                        ![r].approvals = ApprovedIndices(reviews)]
  /\ UNCHANGED <<profile, allowConfigRead, changedFiles, budgets, totalReadLines,
                  totalCalls, lastCall, listDirAttempted, listDirReturned, passed,
                  surfaces, workdir, awaiting>>
  /\ UNCHANGED runVars
  /\ UNCHANGED fnVars

\* one pass of its for loop: dismissPullRequestReview on the next approval
DismissApproval ==
  /\ \E r \in DOMAIN pullRuns :
       /\ pullRuns[r].pc = "dismiss"
       /\ pullRuns[r].approvals # {}
       /\ reviews' = [reviews EXCEPT ![FirstIndex(pullRuns[r].approvals)].state = "DISMISSED"]
       /\ pullRuns' = [pullRuns EXCEPT ![r].approvals = @ \ {FirstIndex(@)}]
  /\ UNCHANGED <<profile, allowConfigRead, changedFiles, budgets, totalReadLines,
                  totalCalls, lastCall, listDirAttempted, listDirReturned, passed,
                  surfaces, workdir, awaiting>>
  /\ UNCHANGED <<workerVersion, runPc, llmResult, outcome>>
  /\ UNCHANGED fnVars

\* createPullRequestReview of the run, after its dismissExistingBotApprovals
\* has returned: APPROVE on the canApprove branch, a COMMENT review otherwise
CreateReview ==
  /\ \E r \in DOMAIN pullRuns :
       /\ pullRuns[r].pc = "dismiss"
       /\ pullRuns[r].approvals = {}
       /\ reviews' =
            IF canApprove(workerVersion, pullRuns[r].result)
            THEN createPullRequestReview(reviews, "APPROVE",
                                         approvalBody(workerVersion, pullRuns[r].result),
                                         <<>>)
            ELSE createPullRequestReview(reviews, "COMMENT",
                                         reviewPayload(workerVersion, pullRuns[r].result).body,
                                         reviewPayload(workerVersion,
                                                       pullRuns[r].result).comments)
       /\ pullRuns' = [pullRuns EXCEPT ![r].pc = "done", ![r].created = Len(reviews) + 1]
  /\ UNCHANGED <<profile, allowConfigRead, changedFiles, budgets, totalReadLines,
                  totalCalls, lastCall, listDirAttempted, listDirReturned, passed,
                  surfaces, workdir, awaiting>>
  /\ UNCHANGED <<workerVersion, runPc, llmResult, outcome>>
  /\ UNCHANGED fnVars

NextPullRuns ==
  \/ StartPullRun
  \/ ListApprovals
  \/ DismissApproval
  \/ CreateReview

SpecPullRuns == InitPullRuns /\ [][NextPullRuns]_vars

\* The checkout of a run.  createWorkdirSession clones the head commit into a
\* directory of its own and returns it with cleanup, which removes the
\* directory (rm, recursive and forced).  The tool surface of the run is rooted
\* in it; the engine is its only user and is awaited before the run goes on.
\* workdirSession.cleanup() is invoked; removed says whether rm succeeded
cleanup(w, removed) ==
  [w EXCEPT !.directory = IF removed THEN "removed" ELSE @, !.cleanups = @ + 1]

\* a run that removes its checkout as the last statement of the try block, so
\* only when nothing was thrown.  The variant that C21_CleanupOnEveryExit
\* tells apart from the code.
finallyBlockOnReturnOnly(w, thrown, removed) ==
  IF w.session /\ ~thrown THEN cleanup(w, removed) ELSE w

\* the finally block: process-pr.ts and part_005 enter it only with a session,
\* part_004 tests workdirSession first; none looks at how the try block ended
finallyBlock(w, thrown, removed) ==
  IF w.session THEN cleanup(w, removed) ELSE w

InitCheckout ==
  /\ profile \in {"conservative", "high"}
  /\ allowConfigRead = FALSE
  /\ changedFiles = <<"src/a.ts">>
  /\ budgets = <<>>
  /\ totalReadLines = 0
  /\ totalCalls = 0
  /\ lastCall = NoCall
  /\ listDirAttempted = FALSE
  /\ listDirReturned = FALSE
  /\ passed = <<>>
  /\ surfaces = NoSurfaces
  /\ workdir = NoWorkdir
  /\ awaiting = <<>>
  /\ pullRuns = <<>>
  /\ FnIdle
  /\ workerVersion \in WorkerVersions
  /\ runPc = "start"
  /\ llmResult = <<>>
  /\ reviews = <<>>
  /\ outcome = "none"

\* createWorkdirSession.  Two functions of this name are in the repository:
\* git/workdir.ts runs each git command once and has no catch (SetupPlain);
\* part_003 runs each through runGitWithRetry and removes the directory in a
\* catch around the commands (SetupRetrying).
SetupPlain == "workdir.ts"

SetupRetrying == "part_003"

SetupVersions == {SetupPlain, SetupRetrying}

MAX_GIT_RETRIES == 2

\* the commit the pull request's head is expected to be
ExpectedHead == "sha1"

\* what one execution of git gives: its standard output, or an error
GitOutcomes ==
  { [ok |-> TRUE, text |-> "sha1\n"], [ok |-> TRUE, text |-> "sha2\n"],
    [ok |-> FALSE, text |-> "fatal: early EOF"],
    [ok |-> FALSE, text |-> "fatal: unable to access"] }

\* the git commands of createWorkdirSession, in order
GitCommands ==
  << "clone", "fetch pull ref", "checkout pull ref", "rev-parse HEAD",
     "fetch sha", "checkout FETCH_HEAD", "rev-parse HEAD" >>

\* runGitCommand / runGit on one execution: the trimmed output, or the error
runGitCommand(git) ==
  IF git.ok THEN [ok |-> TRUE, text |-> Trim(git.text)] ELSE git

\* runGitWithRetry trying once more than MAX_GIT_RETRIES allows.  The
\* variant that C39_GitRetryBounded tells apart from the code.
runGitWithRetryOnceMore(setup, attempt, result) ==
  IF result.ok THEN "return"
  ELSE IF setup = SetupPlain THEN "throw"
  ELSE IF attempt > MAX_GIT_RETRIES + 1 THEN "throw"
  ELSE "retry"

\* what follows attempt number attempt of a command: its result is returned,
\* its error is thrown, or (part_003 only) the command is run again
runGitWithRetry(setup, attempt, result) ==
  IF result.ok THEN "return"
  ELSE IF setup = SetupPlain THEN "throw"
  ELSE IF attempt > MAX_GIT_RETRIES THEN "throw"
  ELSE "retry"

\* where createWorkdirSession goes once command number c has returned text
afterCommand(headSha, c, text) ==
  CASE c \in {1, 2, 5, 6} -> [end |-> "more", next |-> c + 1]
    [] c = 3 -> IF headSha THEN [end |-> "more", next |-> 4]
                ELSE [end |-> "resolve", next |-> 0]
    [] c = 4 -> IF text = ExpectedHead THEN [end |-> "resolve", next |-> 0]
                ELSE [end |-> "more", next |-> 5]
    [] OTHER -> IF text = ExpectedHead THEN [end |-> "resolve", next |-> 0]
                ELSE [end |-> "throw", next |-> 0]

\* the directory once a command has thrown: only part_003 catches and calls rm
afterSetupError(setup, directory, removed) ==
  IF setup = SetupRetrying /\ removed THEN
    (IF directory = "present" THEN "removed" ELSE directory)
  ELSE directory

\* the directory after an execution of git: a clone creates it, and a clone
\* that fails may leave it behind
afterGit(directory, c, ok, left) ==
  IF c = 1 /\ (ok \/ left) THEN "present" ELSE directory

\* the run has thrown before or inside the try block of its body
thrownFromSetup == IF workerVersion = VersionDismissing THEN "finally" ELSE "done"

\* createWorkdirSession resolves and the run constructs its tool surface
OpenCheckout ==
  /\ runPc = "start"
  /\ workdir = NoWorkdir
  /\ workdir' = [NoWorkdir EXCEPT !.directory = "present", !.session = TRUE]
  /\ surfaces' = newVirtualIdeTools(NoSurfaces)
  /\ runPc' = "engine"
  /\ UNCHANGED <<profile, allowConfigRead, changedFiles, budgets, totalReadLines,
                 totalCalls, lastCall, listDirAttempted, listDirReturned,
                 passed, awaiting, pullRuns>>
  /\ UNCHANGED <<workerVersion, llmResult, reviews, outcome>>
  /\ UNCHANGED fnVars

\* createWorkdirSession is called and gets as far as its first git command
BeginSetup ==
  /\ runPc = "start"
  /\ workdir = NoWorkdir
  /\ \E setup \in SetupVersions, sha \in BOOLEAN :
       workdir' = [NoWorkdir EXCEPT !.setup = setup, !.headSha = sha,
                                    !.command = 1, !.attempt = 1]
  /\ runPc' = "setup"
  /\ UNCHANGED <<profile, allowConfigRead, changedFiles, budgets, totalReadLines,
                 totalCalls, lastCall, listDirAttempted, listDirReturned,
                 passed, awaiting, pullRuns, surfaces>>
  /\ UNCHANGED <<workerVersion, llmResult, reviews, outcome>>
  /\ UNCHANGED fnVars

\* createWorkdirSession throws before any git command (arguments, mkdir, the
\* clone URL): the error is logged and thrown again, from inside the try block
\* in part_004 and from before it in the other versions
OpenCheckoutFails ==
  /\ runPc = "start"
  /\ workdir = NoWorkdir
  /\ outcome' = "error"
  /\ runPc' = thrownFromSetup
  /\ UNCHANGED <<workerVersion, llmResult, reviews>>
  /\ UNCHANGED toolVars
  /\ UNCHANGED fnVars

\* one execution of the current git command; tried holds the executions of
\* the command so far, returned what runGitWithRetry gave for it
GitStep(git, left, removed) ==
  LET c == workdir.command
      result == runGitCommand(git)
      verdict == runGitWithRetry(workdir.setup, workdir.attempt, result)
      then == afterCommand(workdir.headSha, c, result.text)
      ran == [workdir EXCEPT !.directory = afterGit(@, c, result.ok, left),
                             !.tried = Append(IF workdir.attempt = 1 THEN <<>> ELSE @,
                                              result)]
      thrown == [ran EXCEPT !.directory = afterSetupError(workdir.setup, @, removed),
                            !.command = 0]
  IN
  /\ runPc = "setup"
  /\ workdir.command \in 1..Len(GitCommands)
  /\ \/ /\ verdict = "retry"
        /\ workdir' = [ran EXCEPT !.attempt = @ + 1, !.returned = <<>>]
        /\ UNCHANGED <<runPc, outcome, surfaces>>
     \/ /\ verdict = "return" /\ then.end = "more"
        /\ workdir' = [ran EXCEPT !.command = then.next, !.attempt = 1,
                                  !.returned = <<result>>]
        /\ UNCHANGED <<runPc, outcome, surfaces>>
     \/ /\ verdict = "return" /\ then.end = "resolve"
        /\ workdir' = [ran EXCEPT !.command = 0, !.session = TRUE,
                                  !.returned = <<result>>]
        /\ surfaces' = newVirtualIdeTools(NoSurfaces)
        /\ runPc' = "engine"
        /\ UNCHANGED outcome
     \/ /\ verdict = "return" /\ then.end = "throw"
        /\ workdir' = [thrown EXCEPT !.returned = <<result>>]
        /\ outcome' = "error"
        /\ runPc' = thrownFromSetup
        /\ UNCHANGED surfaces
     \/ /\ verdict = "throw"
        /\ workdir' = [thrown EXCEPT !.returned = <<result>>]
        /\ outcome' = "error"
        /\ runPc' = thrownFromSetup
        /\ UNCHANGED surfaces
  /\ UNCHANGED <<profile, allowConfigRead, changedFiles, budgets, totalReadLines,
                 totalCalls, lastCall, listDirAttempted, listDirReturned,
                 passed, awaiting, pullRuns>>
  /\ UNCHANGED <<workerVersion, llmResult, reviews>>
  /\ UNCHANGED fnVars

\* git answers: the command returns, is run again, or createWorkdirSession
\* resolves or throws
RunGit ==
  \E git \in GitOutcomes, left \in BOOLEAN, removed \in BOOLEAN :
    GitStep(git, left, removed)

\* inside generateSuggestions the engine calls a tool of the run's surface
EngineCallsTool ==
  /\ runPc = "engine"
  /\ surfaces.sessions[1].totalCalls < MaxCallsEach
  /\ \E c \in ConcurrentCalls : surfaces' = callOn(surfaces, 1, c.tool, c.args)
  /\ UNCHANGED <<profile, allowConfigRead, changedFiles, budgets, totalReadLines,
                 totalCalls, lastCall, listDirAttempted, listDirReturned,
                 passed, awaiting, pullRuns, workdir>>
  /\ UNCHANGED runVars
  /\ UNCHANGED fnVars

\* generateSuggestions resolves
EngineReturns ==
  /\ runPc = "engine"
  /\ \E r \in LlmResults : llmResult' = <<r>>
  /\ runPc' = "decide"
  /\ UNCHANGED <<workerVersion, reviews, outcome>>
  /\ UNCHANGED toolVars
  /\ UNCHANGED fnVars

\* generateSuggestions rejects
EngineThrows ==
  /\ runPc = "engine"
  /\ outcome' = "error"
  /\ runPc' = "finally"
  /\ UNCHANGED <<workerVersion, llmResult, reviews>>
  /\ UNCHANGED toolVars
  /\ UNCHANGED fnVars

\* the finally block runs; after it the caller has the result or the error.
\* A cleanup that throws replaces the result by its error.
RunFinally ==
  /\ runPc = "finally"
  /\ \E removed \in BOOLEAN :
       /\ workdir' = finallyBlock(workdir, outcome = "error", removed)
       /\ outcome' = IF workdir.session /\ ~removed THEN "error" ELSE outcome
  /\ runPc' = "done"
  /\ UNCHANGED <<profile, allowConfigRead, changedFiles, budgets, totalReadLines,
                 totalCalls, lastCall, listDirAttempted, listDirReturned,
                 passed, awaiting, pullRuns, surfaces>>
  /\ UNCHANGED <<workerVersion, llmResult, reviews>>
  /\ UNCHANGED fnVars

NextCheckout ==
  \/ OpenCheckout
  \/ OpenCheckoutFails
  \/ EngineCallsTool
  \/ EngineReturns
  \/ EngineThrows
  \/ ApproveRun
  \/ NoSafeSuggestions
  \/ PostReview
  \/ ReviewRequestFails
  \/ RunFinally

SpecCheckout == InitCheckout /\ [][NextCheckout]_vars

\* the run up to its tool surface, createWorkdirSession taken command by
\* command; every execution of git settles
NextSetup ==
  \/ BeginSetup
  \/ OpenCheckoutFails
  \/ RunGit
  \/ RunFinally

SpecSetup == InitCheckout /\ [][NextSetup]_vars /\ WF_vars(NextSetup)

-----------------------------------------------------------------------------
(* The diff functions applied to one input each (function-level behaviours): *)
(* the input is drawn from the texts below, the action applies the function. *)

MaxPatchLines == 3  \* lines of a patch built from PatchLineChoices
MaxDiffLines == 4   \* lines of a diff built from DiffLineChoices

\* every sequence over S of length at most n
SeqsUpTo(S, n) == UNION {[1..k -> S] : k \in 0..n}

\* patches built from a few lines of each kind, and the patches of
\* tests/patch.test.ts
PatchChoices ==
  { Join(ls, "\n") :
      ls \in SeqsUpTo({ "@@ -1,1 +1,1 @@", "@@ -10,2 +10,3 @@ fn", "@@ broken", "+b", "-a",
                        " c", "+++ b/a.ts", "--- a/a.ts",
                        "\\ No newline at end of file" }, MaxPatchLines) }
  \cup { "@@ -1,3 +1,4 @@\n line1\n-line2\n+line2-updated\n line3\n+line4",
         "@@ -1,1 +1,1 @@\n-a\n+b\n@@ -10,2 +10,3 @@\n c\n+d\n e",
         "@@ -1 +1 @@\n-old\n+new\n\\ No newline at end of file",
         "--- a/a.ts\n+++ b/a.ts\n+line" }

\* the diff of tests/patch.test.ts
DiffExample ==
  Join(<< "diff --git a/src/a.ts b/src/a.ts", "index 1111111..2222222 100644",
          "--- a/src/a.ts", "+++ b/src/a.ts", "@@ -1,2 +1,2 @@", "-const a = 1;",
          "+const a = 2;", "@@ -10,1 +10,2 @@", " console.log(a);",
          "+console.log('x');", "diff --git a/src/b.ts b/src/b.ts",
          "index 3333333..4444444 100644", "--- a/src/b.ts", "+++ b/src/b.ts",
          "Binary files a/src/b.ts and b/src/b.ts differ",
          "diff --git a/src/c.ts b/src/c.ts", "index 5555555..6666666 100644",
          "--- a/src/c.ts", "+++ b/src/c.ts", "@@ -1 +1 @@", "-old", "+new",
          "\\ No newline at end of file" >>, "\n")

\* diffs built from boundary, preamble, hunk and blank lines, and the example
DiffChoices ==
  { Join(ls, "\n") :
      ls \in SeqsUpTo({ "diff --git a/src/a.ts b/src/a.ts", "diff --git a/old.ts b/lib/new.ts",
                        "index 1111111..2222222 100644",
                        "Binary files a/src/a.ts and b/src/a.ts differ",
                        "@@ -1 +1 @@", "+new", " ", "" }, MaxDiffLines) }
  \cup {DiffExample}

\* a function-level behaviour starts with the function named and its input chosen
FnInit(name, inputs) ==
  /\ ToolsIdle
  /\ RunIdle
  /\ fnName = name
  /\ fnInput \in inputs
  /\ fnOutput = <<>>

\* the one step of a function-level behaviour: the function returns
FnReturn(name, value) ==
  /\ fnName = name
  /\ fnOutput = <<>>
  /\ fnOutput' = <<value>>
  /\ UNCHANGED <<fnName, fnInput>>
  /\ UNCHANGED toolVars
  /\ UNCHANGED runVars

InitDiff ==
  \/ FnInit("buildAddedLineToPositionMap", PatchChoices)
  \/ FnInit("extractPatchByFile", DiffChoices)

MapPatch == FnReturn("buildAddedLineToPositionMap", buildAddedLineToPositionMap(fnInput))

ExtractPatches == FnReturn("extractPatchByFile", extractPatchByFile(fnInput))

NextDiff ==
  \/ MapPatch
  \/ ExtractPatches

SpecDiff == InitDiff /\ [][NextDiff]_vars

-----------------------------------------------------------------------------
(* buildReviewPayload applied to one list of candidates (function-level     *)
(* behaviours of the three versions).                                       *)

MaxCandidates == 3  \* length of the candidate lists built from CandidateChoices

\* the containers of buildReviewPayload after its for loop
reviewLoop(version, suggestions, files) ==
  payloadLoop(version, fileMapEntries(version, files), suggestions,
              [comments |-> <<>>, fallbackItems |-> <<>>, seen |-> {}, fallbackSeen |-> {}])

\* a suggestion body with one replacement block
BlockBody(text) == Fence \o "suggestion\n" \o text \o "\n" \o Fence

\* candidates on added lines, on a context line, on a file without a patch, on
\* a file that is not in the pull request, and under other spellings of a path
CandidateChoices ==
  { Suggestion("src/a.ts", 2, BlockBody("const b = 1;")),
    Suggestion("src/a.ts", 2, BlockBody("let b = 1;")),
    Suggestion("./src/a.ts", 9, BlockBody("const b = 1;")),
    Suggestion("src\\a.ts", 10, BlockBody("return z;")),
    Suggestion("src/a.ts", 3, BlockBody("unchanged();")),
    Suggestion("b.ts", 1, BlockBody("binary();")),
    Suggestion("gone.ts", 4, BlockBody("stale();")),
    Suggestion("lib/c.ts", 1, BlockBody("only();")) }

\* n candidates on one added line, their bodies all different
ManyCandidates(n) ==
  [i \in 1..n |-> Suggestion("src/a.ts", 2, BlockBody("v" \o ToString(i) \o "();"))]

\* lists that reach the limit on inline comments
LongCandidateLists ==
  { ManyCandidates(MaxInlineComments + MaxCandidates),
    ManyCandidates(MaxInlineComments) \o << Suggestion("b.ts", 1, BlockBody("binary();")) >>,
    ManyCandidates(MaxInlineComments - 1)
      \o << Suggestion("src/a.ts", 2, BlockBody("v1();")),
            Suggestion("gone.ts", 4, BlockBody("stale();")),
            Suggestion("src/a.ts", 9, BlockBody("const b = 1;")),
            Suggestion("src/a.ts", 10, BlockBody("return z;")) >>,
    [i \in 1..(MAX_FALLBACK_SUGGESTIONS + 1) |->
       Suggestion("b.ts", i, BlockBody("binary();"))] }

PayloadInputs ==
  [version : WorkerVersions,
   suggestions : SeqsUpTo(CandidateChoices, MaxCandidates) \cup LongCandidateLists,
   overallComment : {<<>>, <<"Looks fine to me.">>},
   files : {RunFiles}]

InitPayload == FnInit("buildReviewPayload", PayloadInputs)

\* buildReviewPayload returns; loop keeps what its for loop collected
BuildPayload ==
  FnReturn("buildReviewPayload",
           [loop |-> reviewLoop(fnInput.version, fnInput.suggestions, fnInput.files),
            payload |-> buildReviewPayload(fnInput.version, fnInput.suggestions,
                                           fnInput.overallComment, fnInput.files)])

NextPayload == BuildPayload

SpecPayload == InitPayload /\ [][NextPayload]_vars

-----------------------------------------------------------------------------
(* The body functions of the review provider applied to one input each.     *)

MaxBlockLines == 6  \* lines of a block content handed to the duplicate collapse
MaxBodyLines == 11  \* lines of the block of a body handed to the body check

\* the lines a block content is built from: two plain lines and an indented one
BlockLineChoices == {"a();", "b();", "  c();"}

BlockContentChoices ==
  {Join(ls, "\n") : ls \in SeqsUpTo(BlockLineChoices, MaxBlockLines)}

\* n different lines
DistinctLines(n) == Join([i \in 1..n |-> "line" \o ToString(i) \o "();"], "\n")

\* bodies without a block, with one block of each length, with a block that is
\* a repeat, with a block that never closes, and with two blocks; each with and
\* without text around it
BodyChoices ==
  { prefix \o middle \o suffix :
      prefix \in {"", "Fix this:\n"}, suffix \in {"", "\nThanks."},
      middle \in {"Please rename the variable.", Fence \o "suggestion\nnever closed",
                  Fence \o "ts\nconst a = 1;\n" \o Fence,
                  BlockBody(DistinctLines(6) \o "\n" \o DistinctLines(6))}
                 \cup {BlockBody(DistinctLines(n)) : n \in 1..MaxBodyLines}
                 \cup {BlockBody(DistinctLines(n)) \o "\n" \o BlockBody(DistinctLines(m)) :
                         n, m \in 1..2} }

InitBody ==
  \/ FnInit("dedupeConsecutiveDuplicateBlock", BlockContentChoices)
  \/ FnInit("sanitizeSuggestionBody", BodyChoices)

CollapseBlock ==
  FnReturn("dedupeConsecutiveDuplicateBlock", dedupeConsecutiveDuplicateBlock(fnInput))

SanitizeBody == FnReturn("sanitizeSuggestionBody", sanitizeSuggestionBody(fnInput))

NextBody ==
  \/ CollapseBlock
  \/ SanitizeBody

SpecBody == InitBody /\ [][NextBody]_vars

-----------------------------------------------------------------------------
(* The way of the engine's items to the review: normalizeResult, the        *)
(* preview loop of generateSuggestions, then the loop of buildReviewPayload. *)

MaxRawItems == 2  \* items of a parsed output built from RawItemChoices

RawItemChoices ==
  { RawItem(<<"src/a.ts">>, <<2>>, <<BlockBody("const b = 1;")>>),
    RawItem(<<"./src/a.ts">>, <<9>>, <<"Return early.\n" \o BlockBody("return z;")>>),
    RawItem(<<"src/a.ts">>, <<3>>, <<BlockBody("unchanged();")>>),
    RawItem(<<"b.ts">>, <<1>>, <<BlockBody("binary();")>>),
    RawItem(<<"src/a.ts">>, <<10>>, <<"Rename the variable.">>),
    RawItem(<<"src/a.ts">>, <<10>>, <<>>),
    RawItem(<<"src/a.ts">>, <<0>>, <<BlockBody("const b = 1;")>>),
    RawItem(<<"src/a.ts">>, <<>>, <<BlockBody("const b = 1;")>>),
    RawItem(<<>>, <<2>>, <<BlockBody("const b = 1;")>>),
    RawItem(<<"">>, <<-1>>, <<"">>) }

\* what the engine says of the pull request as a whole, beside its items
VerdictChoices ==
  { [overallStatus |-> <<>>, allowAutoApprove |-> <<>>, overallComment |-> <<" Looks fine. ">>],
    [overallStatus |-> <<"fine">>, allowAutoApprove |-> <<>>,
     overallComment |-> <<" Looks fine. ">>],
    [overallStatus |-> <<"ok">>, allowAutoApprove |-> <<>>,
     overallComment |-> <<" Looks fine. ">>],
    [overallStatus |-> <<"ok">>, allowAutoApprove |-> <<TRUE>>,
     overallComment |-> <<" Looks fine. ">>],
    [overallStatus |-> <<"ok">>, allowAutoApprove |-> <<>>,
     overallComment |-> <<REVIEW_OK_COMMENT \o "\n">>] }

PipelineInputs ==
  { [raw |-> [suggestions |-> items, overallStatus |-> verdict.overallStatus,
              allowAutoApprove |-> verdict.allowAutoApprove,
              overallComment |-> verdict.overallComment],
     unsafe |-> unsafe, version |-> version, files |-> RunFiles] :
      items \in SeqsUpTo(RawItemChoices, MaxRawItems), verdict \in VerdictChoices,
      unsafe \in {{}, {"src/a.ts:2"}}, version \in WorkerVersions }

InitPipeline == FnInit("generateSuggestions", PipelineInputs)

\* normalizeResult(parsed)
NormalizeResult ==
  /\ fnName = "generateSuggestions"
  /\ Len(fnOutput) = 0
  /\ fnOutput' = << normalizeResult(fnInput.raw) >>
  /\ UNCHANGED <<fnName, fnInput>>
  /\ UNCHANGED toolVars
  /\ UNCHANGED runVars

\* the preview loop: filtered = {...normalized, suggestions: validatedSuggestions}
ValidateSuggestions ==
  /\ fnName = "generateSuggestions"
  /\ Len(fnOutput) = 1
  /\ fnOutput' =
       Append(fnOutput,
              [fnOutput[1] EXCEPT
                 !.suggestions = validateLoop(fnOutput[1].suggestions, {}, <<>>, 0,
                                              fnInput.unsafe)])
  /\ UNCHANGED <<fnName, fnInput>>
  /\ UNCHANGED toolVars
  /\ UNCHANGED runVars

\* llmResult as the worker reads it: allowAutoApprove is a boolean here
filteredResult(filtered) ==
  [filtered EXCEPT !.allowAutoApprove = << filtered.allowAutoApprove >>]

\* canApprove holds: the worker approves and builds no payload
ApproveFiltered ==
  /\ fnName = "generateSuggestions"
  /\ Len(fnOutput) = 2
  /\ outcome = "none"
  /\ canApprove(fnInput.version, filteredResult(fnOutput[2]))
  /\ outcome' = "approved"
  /\ UNCHANGED <<workerVersion, runPc, llmResult, reviews>>
  /\ UNCHANGED fnVars
  /\ UNCHANGED toolVars

\* otherwise the worker hands the suggestions to buildReviewPayload
ReconcileSuggestions ==
  /\ fnName = "generateSuggestions"
  /\ Len(fnOutput) = 2
  /\ ~canApprove(fnInput.version, filteredResult(fnOutput[2]))
  /\ fnOutput' =
       Append(fnOutput, reviewLoop(fnInput.version, fnOutput[2].suggestions, fnInput.files))
  /\ UNCHANGED <<fnName, fnInput>>
  /\ UNCHANGED toolVars
  /\ UNCHANGED runVars

NextPipeline ==
  \/ NormalizeResult
  \/ ValidateSuggestions
  \/ ApproveFiltered
  \/ ReconcileSuggestions

SpecPipeline == InitPipeline /\ [][NextPipeline]_vars

-----------------------------------------------------------------------------
(* Properties of the tool surface (SpecTools, SpecBudget) and of the       *)
(* review run (SpecRun).                                                   *)

\* a basename the documentation calls secret-shaped
SecretShaped(name) ==
  \/ StartsWith(ToLowerCase(name), ".env")
  \/ EndsWith(ToLowerCase(name), ".pem")
  \/ ToLowerCase(name) = "id_rsa"
  \/ StartsWith(ToLowerCase(name), "credentials")

NoiseDirectories ==
  {".git", "node_modules", "dist", "build", ".next", "coverage", ".cache", ".turbo"}

\* p is the confinement root or lies beneath it
InsideRoot(p) == p = RootDir \/ StartsWith(p, RootDir \o "/")

\* a path argument that names an absolute path, a drive path or a ".." segment
EscapingArgument(arg) ==
  \/ StartsWith(Trim(ReplaceAll(arg, "\\", "/")), "/")
  \/ IsDrivePath(Trim(ReplaceAll(arg, "\\", "/")))
  \/ \E i \in 1..Len(Split(Trim(ReplaceAll(arg, "\\", "/")), "/")) :
       Split(Trim(ReplaceAll(arg, "\\", "/")), "/")[i] = ".."

\* the segments of a listing entry, its directory marker removed
EntrySegments(entry) == Split(StripTrailingSlashes(entry), "/")

\* C1: an APPROVE review is posted (outcome "approved") only if the engine
\* result's overallStatus is exactly "ok", its suggestion list is empty, and its
\* overall comment equals the sentinel (surrounding whitespace aside) or
\* allowAutoApprove is true.
C1_ApprovalGate ==
  outcome = "approved" =>
    /\ llmResult[1].overallStatus = <<"ok">>
    /\ Len(llmResult[1].suggestions) = 0
    /\ \/ /\ llmResult[1].overallComment # <<>>
          /\ Trim(llmResult[1].overallComment[1]) = REVIEW_OK_COMMENT
       \/ llmResult[1].allowAutoApprove = <<TRUE>>

\* C2: until the first list_dir attempt of a session, every call fails with the
\* ordering violation, accesses no file and leaves the call counter, the
\* read-line total and all budgets as they were at construction.
C2_ListDirFirst ==
  ~listDirAttempted =>
    /\ budgets = InitialBudgets(profile)
    /\ totalCalls = 0
    /\ totalReadLines = 0
    /\ lastCall.tool # "none" =>
         /\ lastCall.err = Err.ordering
         /\ lastCall.access = {}
         /\ lastCall.reads = {}
         /\ lastCall.out = <<>>

C2_Witness ==
  /\ ~listDirAttempted
  /\ lastCall.tool = "read_file"
  /\ lastCall.args.path = <<"src/a.ts">>
  /\ lastCall.err = Err.ordering

\* C3: every path a tool operation hands to the file system is the confinement
\* root or lies beneath it, and a list_dir or read_file whose path argument is
\* absolute, a drive path or contains a ".." segment fails without any access.
C3_PathConfinement ==
  /\ \A p \in lastCall.access \cup lastCall.reads : InsideRoot(p)
  /\ (/\ lastCall.tool \in {"list_dir", "read_file"}
      /\ lastCall.args.path # <<>>
      /\ EscapingArgument(lastCall.args.path[1]))
       => (lastCall.err # "" /\ lastCall.access = {} /\ lastCall.reads = {})

C3_Witness ==
  /\ lastCall.tool = "read_file"
  /\ lastCall.args.path = <<"src/../package.json">>
  /\ allowConfigRead
  /\ lastCall.err = Err.traversal
  /\ lastCall.access = {}

\* C4: in a session at most 3 list_dir calls, at most 8 read_file calls and at
\* most 5 search_text calls get past the budget check.
C4_BudgetLimits ==
  /\ passed.listDir <= 3
  /\ passed.readFile <= 8
  /\ passed.searchText <= 5

\* C5: every per-kind budget counter is greater than or equal to zero in every
\* reachable state of a session.
C5_BudgetsNonNegative == \A k \in DOMAIN budgets : budgets[k] >= 0

\* C6: a read_file call whose span end_line - start_line + 1 exceeds 200, or
\* whose end_line is below its start_line, fails and reads no file content.
C6_SpanCap ==
  (/\ lastCall.tool = "read_file"
   /\ lastCall.args.start_line # <<>>
   /\ lastCall.args.end_line # <<>>
   /\ \/ lastCall.args.end_line[1] - lastCall.args.start_line[1] + 1 > 200
      \/ lastCall.args.end_line[1] < lastCall.args.start_line[1])
    => (lastCall.err # "" /\ lastCall.reads = {} /\ lastCall.out = <<>>)

\* C7: on the conservative profile the cumulative read-line total never exceeds
\* 2000, and a call that fails leaves the total unchanged.
C7_TotalReadLines ==
  [][profile = "conservative" =>
       /\ totalReadLines' <= 2000
       /\ totalReadLines' >= totalReadLines
       /\ lastCall'.err # "" => totalReadLines' = totalReadLines]_vars

C7_Witness ==
  /\ profile = "conservative"
  /\ totalReadLines = 1600
  /\ lastCall.tool = "read_file"
  /\ lastCall.err # ""

\* C8: read_file returns content only for a path that is in the changed-file
\* set, or whose basename is in the config allowlist when the session was
\* created with allowConfigRead; for every other path it fails and reads nothing.
C8_ReadAllowlist ==
  (/\ lastCall.tool = "read_file"
   /\ lastCall.args.path # <<>>
   /\ ~(\/ \E i \in 1..Len(changedFiles) :
             changedFiles[i] = normalizeRepoRelativePath(lastCall.args.path[1]).path
        \/ /\ allowConfigRead
           /\ basename(normalizeRepoRelativePath(lastCall.args.path[1]).path)
                \in DEFAULT_CONFIG_ALLOWLIST))
    => (lastCall.err # "" /\ lastCall.reads = {} /\ lastCall.out = <<>>)

C8_Witness ==
  /\ lastCall.tool = "read_file"
  /\ lastCall.args.path = <<"package.json">>
  /\ ~allowConfigRead
  /\ lastCall.err = Err.restricted
  /\ lastCall.reads = {}

\* C9: no read_file, search_text, scan_security_sinks or list_dir call returns
\* the name in a listing, or a line or excerpt, of a file whose basename is
\* secret-shaped.
C9_NoSecretFiles ==
  /\ lastCall.tool = "list_dir" =>
       \A i \in 1..Len(lastCall.out) :
         ~SecretShaped(basename(StripTrailingSlashes(lastCall.out[i])))
  /\ lastCall.tool \in {"search_text", "scan_security_sinks"} =>
       \A i \in 1..Len(lastCall.out) : ~SecretShaped(basename(lastCall.out[i].path))
  /\ lastCall.tool = "read_file" =>
       \A p \in lastCall.reads : ~SecretShaped(basename(p))

\* C10: no entry that list_dir returns names, or lies beneath, a noise directory,
\* and no returned entry is a secret-shaped file, whatever the arguments.
C10_ListDirExclusions ==
  lastCall.tool = "list_dir" =>
    \A i \in 1..Len(lastCall.out) :
      /\ \A k \in 1..Len(EntrySegments(lastCall.out[i])) :
           EntrySegments(lastCall.out[i])[k] \notin NoiseDirectories
      /\ ~SecretShaped(basename(StripTrailingSlashes(lastCall.out[i])))

\* the lines of a patch or diff text
TextLines(text) == Split(text, "\n")

\* the kind of a patch line, as the replay tells them apart
PatchLineKind(line) ==
  IF StartsWith(line, "@@ ") THEN
    IF parseHunkHeader(line) # <<>> THEN "header" ELSE "other"
  ELSE IF StartsWith(line, "\\") THEN "marker"
  ELSE IF StartsWith(line, "+") /\ ~StartsWith(line, "+++") THEN "added"
  ELSE IF StartsWith(line, "-") /\ ~StartsWith(line, "---") THEN "removed"
  ELSE IF StartsWith(line, " ") THEN "context"
  ELSE "other"

\* the kinds of the lines of a patch from index i on
RECURSIVE KindsFrom(_, _)
KindsFrom(lines, i) ==
  IF i > Len(lines) THEN <<>>
  ELSE <<PatchLineKind(lines[i])>> \o KindsFrom(lines, i + 1)

\* the kinds of the lines of a patch, in line order
LineKinds(lines) == KindsFrom(lines, 1)

\* the hunk headers that precede line i
HeadersBefore(kinds, i) == {h \in 1..(i - 1) : kinds[h] = "header"}

\* the lines up to i, of the counted kinds, that lie after index from and inside a hunk
CountedLines(kinds, from, i, counted) ==
  {k \in (from + 1)..i : HeadersBefore(kinds, k) # {} /\ kinds[k] \in counted}

\* the added lines of a patch that lie inside a hunk
AddedLines(kinds) ==
  {i \in DOMAIN kinds : kinds[i] = "added" /\ HeadersBefore(kinds, i) # {}}

\* the position the replay has reached after line i: positions run on across hunks
ReplayPosition(kinds, i) ==
  Cardinality(CountedLines(kinds, 0, i, {"added", "removed", "context"}))

\* the new-file line number the replay holds when it reaches line i
ReplayNewLine(lines, kinds, i) ==
  LET h == CHOOSE x \in HeadersBefore(kinds, i) : \A y \in HeadersBefore(kinds, i) : y <= x
  IN parseHunkHeader(lines[h])[1].newStart
       + Cardinality(CountedLines(kinds, h, i - 1, {"added", "context"}))

\* each added line's number to its position, the later of two added lines with
\* one number winning
ReplayMapOf(lines, kinds, added) ==
  [n \in {ReplayNewLine(lines, kinds, i) : i \in added} |->
     ReplayPosition(kinds,
       CHOOSE i \in added :
         /\ ReplayNewLine(lines, kinds, i) = n
         /\ \A j \in added : ReplayNewLine(lines, kinds, j) = n => j <= i)]

\* the map of the reference replay of a patch
ReplayMap(lines) == ReplayMapOf(lines, LineKinds(lines), AddedLines(LineKinds(lines)))

TwoHunkExample == "@@ -1,1 +1,1 @@\n-a\n+b\n@@ -10,2 +10,3 @@\n c\n+d\n e"

\* C11: for every patch text the map that buildAddedLineToPositionMap returns is
\* the map of the reference replay (lines before the first hunk header ignored,
\* positions cumulative across hunks, headers and no-newline markers not
\* counted); so only added lines are keys, a patch without a hunk header gives
\* the empty map, and the two-hunk example gives 1 -> 2 and 11 -> 4.
C11_PositionMapReplay ==
  (fnName = "buildAddedLineToPositionMap" /\ fnOutput # <<>>) =>
    /\ fnOutput[1] = ReplayMap(TextLines(fnInput))
    /\ \A n \in DOMAIN fnOutput[1] :
         \E i \in AddedLines(LineKinds(TextLines(fnInput))) :
           ReplayNewLine(TextLines(fnInput), LineKinds(TextLines(fnInput)), i) = n
    /\ (\A i \in DOMAIN TextLines(fnInput) :
          LineKinds(TextLines(fnInput))[i] # "header") => DOMAIN fnOutput[1] = {}
    /\ fnInput = TwoHunkExample => fnOutput[1] = (1 :> 2 @@ 11 :> 4)

C11_Witness ==
  /\ fnName = "buildAddedLineToPositionMap"
  /\ fnInput = TwoHunkExample
  /\ fnOutput = << (1 :> 2 @@ 11 :> 4) >>

\* the file boundaries of a diff
Boundaries(lines) == {i \in DOMAIN lines : StartsWith(lines[i], "diff --git ")}

\* the last line of the block that the boundary at i opens
BlockEnd(lines, i) ==
  IF \E b \in Boundaries(lines) : b > i
  THEN (CHOOSE b \in Boundaries(lines) : b > i /\ \A c \in Boundaries(lines) : c > i => b <= c) - 1
  ELSE Len(lines)

\* the hunk header lines of the block that the boundary at i opens
BlockHunks(lines, i) == {k \in (i + 1)..BlockEnd(lines, i) : StartsWith(lines[k], "@@ ")}

\* the boundaries whose block has a hunk header
PatchedBoundaries(lines) == {i \in Boundaries(lines) : BlockHunks(lines, i) # {}}

\* the second path of a boundary line "diff --git a/X b/Y" whose paths hold no blank
SecondPath(line) ==
  LET at == CHOOSE k \in 1..Len(line) : HasAt(line, k, " b/")
  IN SubSeq(line, at + 3, Len(line))

\* the text from the first hunk header of a block to its end, trailing whitespace off
BlockPatch(lines, i) ==
  TrimEnd(Join(SubSeq(lines,
                      CHOOSE k \in BlockHunks(lines, i) : \A m \in BlockHunks(lines, i) : k <= m,
                      BlockEnd(lines, i)), "\n"))

\* C12: extractPatchByFile has an entry for a file exactly when a hunk header
\* line lies between the file's "diff --git a/X b/Y" boundary and the next
\* boundary; the entry's key is the boundary's second path, its text is every
\* line from the first hunk header to the next boundary with trailing whitespace
\* trimmed, and so it starts with "@@ "; a file with only preamble or
\* "Binary files" lines has no entry.
C12_ExtractPatchByFile ==
  (fnName = "extractPatchByFile" /\ fnOutput # <<>>) =>
    /\ DOMAIN fnOutput[1] =
         {SecondPath(TextLines(fnInput)[i]) : i \in PatchedBoundaries(TextLines(fnInput))}
    /\ \A i \in PatchedBoundaries(TextLines(fnInput)) :
         (\A j \in PatchedBoundaries(TextLines(fnInput)) :
            SecondPath(TextLines(fnInput)[j]) = SecondPath(TextLines(fnInput)[i]) => j <= i)
         => fnOutput[1][SecondPath(TextLines(fnInput)[i])] = BlockPatch(TextLines(fnInput), i)
    /\ \A key \in DOMAIN fnOutput[1] : StartsWith(fnOutput[1][key], "@@ ")

C12_Witness ==
  /\ fnName = "extractPatchByFile"
  /\ fnInput = DiffExample
  /\ fnOutput # <<>>
  /\ DOMAIN fnOutput[1] = {"src/a.ts", "src/c.ts"}
  /\ fnOutput[1]["src/c.ts"] = "@@ -1 +1 @@\n-old\n+new\n\\ No newline at end of file"

\* the buildReviewPayload behaviour has returned
PayloadBuilt == fnName = "buildReviewPayload" /\ fnOutput # <<>>

\* the files of the pull request that have a patch and that a comment's path names
PatchedFilesNamed(files, path) ==
  {f \in {files[i] : i \in DOMAIN files} :
     f.patch # <<>> /\ (f.filename = path \/ normalizePath(f.filename) = path)}

\* the candidate, given for the path of the comment, that a comment answers:
\* its line is an added line of the patch and the comment carries its position
Positions(comment, candidate, patch) ==
  /\ normalizePath(candidate.path) = comment.path
  /\ candidate.body = comment.body
  /\ LET map == ReplayMap(TextLines(patch))
     IN /\ candidate.line \in DOMAIN map
        /\ comment.position = map[candidate.line]

\* C13: every inline comment that buildReviewPayload emits names a changed file
\* that has a patch, answers a candidate whose line is an added line of that
\* patch, and carries the position (at least 1) that the patch's position map
\* gives that line, not the line number itself.
C13_CommentPositions ==
  PayloadBuilt =>
    \A k \in DOMAIN fnOutput[1].payload.comments :
      /\ fnOutput[1].payload.comments[k].position >= 1
      /\ \E f \in PatchedFilesNamed(fnInput.files, fnOutput[1].payload.comments[k].path) :
           \E i \in DOMAIN fnInput.suggestions :
             Positions(fnOutput[1].payload.comments[k], fnInput.suggestions[i], f.patch[1])

C13_Witness ==
  /\ PayloadBuilt
  /\ fnInput.suggestions = << Suggestion("./src/a.ts", 9, BlockBody("const b = 1;")) >>
  /\ fnOutput[1].payload.comments =
       << [path |-> "src/a.ts", position |-> 5, body |-> BlockBody("const b = 1;")] >>

\* the (path, position, body) of candidate i, <<>> when the candidate has no
\* position: no changed file with a patch under its path, or a line that is
\* not an added line of the patch
CandidateTriple(files, candidates, i) ==
  LET path == normalizePath(candidates[i].path)
      named == PatchedFilesNamed(files, path)
  IN IF named = {} THEN <<>>
     ELSE LET map == ReplayMap(TextLines((CHOOSE f \in named : TRUE).patch[1]))
          IN IF candidates[i].line \in DOMAIN map
             THEN << [path |-> path, position |-> map[candidates[i].line],
                      body |-> candidates[i].body] >>
             ELSE <<>>

\* the triples of the candidates from index i on, in candidate order
RECURSIVE TriplesFrom(_, _, _)
TriplesFrom(files, candidates, i) ==
  IF i > Len(candidates) THEN <<>>
  ELSE <<CandidateTriple(files, candidates, i)>> \o TriplesFrom(files, candidates, i + 1)

\* the triples of all candidates, in candidate order
CandidateTriples(files, candidates) == TriplesFrom(files, candidates, 1)

\* the candidates that are the first to bring their triple
FirstOfTriple(triples) ==
  {i \in DOMAIN triples : triples[i] # <<>> /\ \A j \in 1..(i - 1) : triples[j] # triples[i]}

\* the k-th smallest member of a set of numbers
KthOf(set, k) == CHOOSE i \in set : Cardinality({j \in set : j <= i}) = k

\* the triples of the first members of a set of candidates, oldest first, at
\* most limit of them
TriplesOf(triples, first, limit) ==
  [k \in 1..(IF Cardinality(first) < limit THEN Cardinality(first) ELSE limit) |->
     triples[KthOf(first, k)][1]]

\* the first distinct positioned triples, oldest first, at most limit of them
AdmittedTriples(triples, limit) == TriplesOf(triples, FirstOfTriple(triples), limit)

\* C14: for a candidate list of any length buildReviewPayload (part_004) emits
\* at most 20 inline comments, no two of them with the same path, position and
\* body, and they are the first (up to 20) distinct positioned candidates in
\* candidate order.
C14_CommentCap ==
  (PayloadBuilt /\ fnInput.version = VersionDismissing) =>
    /\ Len(fnOutput[1].payload.comments) <= 20
    /\ \A a, b \in DOMAIN fnOutput[1].payload.comments :
         fnOutput[1].payload.comments[a] = fnOutput[1].payload.comments[b] => a = b
    /\ fnOutput[1].payload.comments =
         AdmittedTriples(CandidateTriples(fnInput.files, fnInput.suggestions), 20)

C14_Witness ==
  /\ PayloadBuilt
  /\ fnInput.version = VersionDismissing
  /\ Len(fnInput.suggestions) = MaxInlineComments + 3
  /\ fnInput.suggestions[MaxInlineComments] = Suggestion("src/a.ts", 2, BlockBody("v1();"))
  /\ Len(fnOutput[1].payload.comments) = 20
  /\ fnOutput[1].payload.comments[20].position = 5

\* candidate i has no changed file with a patch under its path
WithoutPatch(files, candidates, i) ==
  PatchedFilesNamed(files, normalizePath(candidates[i].path)) = {}

\* candidate i has such a file, and its line is not an added line of the patch
NotAnAddedLine(files, candidates, i) ==
  /\ ~WithoutPatch(files, candidates, i)
  /\ CandidateTriple(files, candidates, i) = <<>>

\* the fallback list holds the entry (path, line, reason) of candidate i
HasFallbackEntry(items, candidates, i, reason) ==
  \E k \in DOMAIN items :
    items[k] = [path |-> normalizePath(candidates[i].path), line |-> candidates[i].line,
                reason |-> reason]

\* C15: buildReviewPayload (part_004, part_005) never raises for a candidate
\* that cannot be attached: a candidate whose path has no changed file with a
\* patch gives the fallback entry (path, line, "patch is unavailable"), one
\* whose line is not in the file's position map gives (path, line, "line is
\* not an added diff line"), and the loop goes on with the next candidate.
C15_UnattachableFallback ==
  (PayloadBuilt /\ fnInput.version \in {VersionGated, VersionDismissing}) =>
    \A i \in DOMAIN fnInput.suggestions :
      /\ WithoutPatch(fnInput.files, fnInput.suggestions, i) =>
           HasFallbackEntry(fnOutput[1].loop.fallbackItems, fnInput.suggestions, i,
                            "patch is unavailable")
      /\ NotAnAddedLine(fnInput.files, fnInput.suggestions, i) =>
           HasFallbackEntry(fnOutput[1].loop.fallbackItems, fnInput.suggestions, i,
                            "line is not an added diff line")

\* how many replacement blocks a body opens
SuggestionBlocks(body) ==
  Cardinality({k \in 1..Len(body) : HasAt(body, k, Fence \o "suggestion")})

\* the lines of the (first) replacement block of a body after the duplicate
\* collapse; 0 when the body has no complete block
CollapsedBlockLines(body) ==
  IF blockMatch(body) = <<>> THEN 0
  ELSE Len(Split(dedupeConsecutiveDuplicateBlock(blockMatch(body)[1].content), "\n"))

\* C17: every body that sanitizeSuggestionBody admits contains exactly one
\* replacement block, of at most 10 lines after the duplicate collapse; a body
\* with no such block, with more than one, or with a block of more than 10
\* lines is rejected.
C17_OneBlockPerBody ==
  (fnName = "sanitizeSuggestionBody" /\ fnOutput # <<>>) =>
    /\ fnOutput[1] # <<>> =>
         /\ SuggestionBlocks(fnInput) = 1
         /\ SuggestionBlocks(fnOutput[1][1]) = 1
         /\ CollapsedBlockLines(fnOutput[1][1]) \in 1..10
    /\ (SuggestionBlocks(fnInput) # 1 \/ CollapsedBlockLines(fnInput) \notin 1..10) =>
         fnOutput[1] = <<>>

\* the block that is the sub-block S written n times in a row
Repeated(S, n) == Join([i \in 1..(n * Len(S)) |-> S[((i - 1) % Len(S)) + 1]], "\n")

\* C18: a block that is two or three consecutive repeats of a non-empty
\* sub-block S is collapsed by dedupeConsecutiveDuplicateBlock into one copy of
\* S, all its lines in order.
C18_CollapseRepeats ==
  (fnName = "dedupeConsecutiveDuplicateBlock" /\ fnOutput # <<>>) =>
    \A S \in SeqsUpTo(BlockLineChoices, MaxBlockLines \div 2) \ {<<>>} :
      fnInput \in {Repeated(S, 2), Repeated(S, 3)} => fnOutput[1] = Join(S, "\n")

\* a raw item fails a step of the validation: it lacks a path or a line, its
\* line is not positive, it lacks a body or its body is not admitted, its file
\* has no patch, or its line is not in the position map of the patch
FailsValidation(files, item) ==
  \/ FalsyString(item.path)
  \/ item.line = <<>>
  \/ item.line[1] <= 0
  \/ FalsyString(item.body)
  \/ sanitizeSuggestionBody(item.body[1]) = <<>>
  \/ CandidateTriple(files, << Suggestion(item.path[1], item.line[1], item.body[1]) >>, 1) = <<>>

\* the fallback list names the item by the path and the line it has
NamedInFallback(items, item) ==
  \E k \in DOMAIN items :
    /\ ~FalsyString(item.path) => items[k].path = normalizePath(item.path[1])
    /\ item.line # <<>> => items[k].line = item.line[1]

\* C16: every candidate that fails a step of the validation (missing path or
\* line, line not a positive integer, missing or invalid body, no known patch,
\* line not in the position map) is in the fallback list by its path and line,
\* not silently discarded, and no such failure aborts the run.
C16_FailuresReachFallback ==
  (fnName = "generateSuggestions" /\ Len(fnOutput) = 3) =>
    \A i \in DOMAIN fnInput.raw.suggestions :
      FailsValidation(fnInput.files, fnInput.raw.suggestions[i]) =>
        NamedInFallback(fnOutput[3].fallbackItems, fnInput.raw.suggestions[i])

\* the lines "- path:line (reason)" that may name the items of a fallback list
FallbackNames(items) ==
  { "- " \o items[k].path \o ":" \o ToString(items[k].line) \o " (" \o reason \o ")" :
      k \in DOMAIN items, reason \in {"patch is unavailable", "line is not an added diff line"} }

\* the lines of the fallback section under its heading, the closing count of
\* the items left out excepted
SectionEntries(section) ==
  {Split(section, "\n")[n] : n \in 2..Len(Split(section, "\n"))}
    \ {"- ... and " \o ToString(k) \o " more" : k \in 1..MaxInlineComments}

\* C19: the fallback section of a review body names each suggestion that could
\* not be attached only as "path:line (reason)", and no text of a suggestion
\* body appears in the review body through it (in all three versions of
\* buildFallbackSection).
C19_FallbackNamesOnly ==
  (PayloadBuilt /\ Len(fnOutput[1].loop.fallbackItems) > 0) =>
    /\ SectionEntries(buildFallbackSection(fnInput.version, fnOutput[1].loop.fallbackItems))
         \subseteq FallbackNames(fnOutput[1].loop.fallbackItems)
    /\ \A i \in DOMAIN fnInput.suggestions :
         ~Includes(fnOutput[1].payload.body[1], fnInput.suggestions[i].body)

\* a review with nothing in it: no inline comment and no body text
EmptyReview(review) ==
  /\ Len(review.comments) = 0
  /\ review.body = <<>> \/ review.body = <<"">>

\* C20: a review is never posted empty: when the reconciliation of a run gives
\* no inline comment and no body text, the run ends with the outcome "no safe
\* suggestions" and creates no review, and every COMMENT review that a run
\* creates has an inline comment or a body that is not empty.
C20_NoEmptyReview ==
  [][ (runPc = "decide" /\ runPc' = "done") =>
        /\ ( /\ ~canApprove(workerVersion, llmResult[1])
             /\ reviewPayload(workerVersion, llmResult[1]).body = <<>>
             /\ Len(reviewLoop(workerVersion, llmResult[1].suggestions, RunFiles).comments) = 0 )
           => (outcome' = "no_suggestions" /\ reviews' = reviews)
        /\ \A i \in DOMAIN reviews' :
             (i > Len(reviews) /\ reviews'[i].event = "COMMENT") => ~EmptyReview(reviews'[i])
    ]_vars

C20_Witness ==
  /\ runPc = "done"
  /\ outcome = "no_suggestions"
  /\ reviews = <<>>
  /\ llmResult # <<>>
  /\ reviewPayload(workerVersion, llmResult[1]).isNull

-----------------------------------------------------------------------------
(* Properties of the tool surface: failures, search, the sink scan, caps.  *)

\* C23: a tool call that fails leaves the read-line total and the budgets of
\* the other kinds as they were, changes the call counter and the budget of
\* its own kind by at most one, and leaves the session usable: list_dir (while
\* its budget lasts) and get_changed_files (once a call was counted) still
\* succeed after it.
C23_FailedCallFrame ==
  [][ lastCall'.err # "" =>
        /\ totalReadLines' = totalReadLines
        /\ \A k \in DOMAIN budgets :
             IF k = KindOf(lastCall'.tool)
             THEN budgets'[k] \in {budgets[k], budgets[k] - 1}
             ELSE budgets'[k] = budgets[k]
        /\ totalCalls' \in {totalCalls, totalCalls + 1}
        /\ budgets'.listDir > 0 => call(Session', "list_dir", NoArgs).err = ""
        /\ totalCalls' > 0 => call(Session', "get_changed_files", NoArgs).err = ""
    ]_vars

C23_Witness ==
  /\ lastCall.tool = "read_file"
  /\ lastCall.err = Err.restricted
  /\ totalCalls = 2
  /\ totalReadLines = 0
  /\ budgets.readFile = InitialBudgets(profile).readFile - 1
  /\ budgets.listDir = InitialBudgets(profile).listDir - 1
  /\ budgets.searchText = InitialBudgets(profile).searchText

\* search_text has returned
Searched == lastCall.tool = "search_text" /\ lastCall.err = ""

\* the file of the checkout that a repository-relative path names
FileNamed(path) == PathJoin(RootDir, path)

\* C24: every hit of search_text has a path of the changed-file set that is not
\* secret-shaped and names a regular file inside the confinement root, and
\* the line it points at contains the query, letter case aside; search_text
\* opens no file other than those the changed-file set names.
C24_SearchHits ==
  Searched =>
    /\ \A i \in 1..Len(lastCall.out) :
         /\ \E k \in 1..Len(changedFiles) : changedFiles[k] = lastCall.out[i].path
         /\ ~SecretShaped(basename(lastCall.out[i].path))
         /\ InsideRoot(FileNamed(lastCall.out[i].path))
         /\ IsFile(FileNamed(lastCall.out[i].path))
         /\ lastCall.out[i].line \in 1..Len(EntryAt(FileNamed(lastCall.out[i].path)).lines)
         /\ Includes(ToLowerCase(EntryAt(FileNamed(lastCall.out[i].path))
                                   .lines[lastCall.out[i].line].text),
                     ToLowerCase(lastCall.args.query[1]))
    /\ \A p \in lastCall.access \cup lastCall.reads :
         \E k \in 1..Len(changedFiles) : p = FileNamed(changedFiles[k])

C24_Witness ==
  /\ Searched
  /\ lastCall.args.query = <<"key">>
  /\ \E k \in 1..Len(changedFiles) : changedFiles[k] = ".env"
  /\ \E k \in 1..Len(changedFiles) : changedFiles[k] = "credentials.ts"
  /\ lastCall.out =
       << [path |-> "src/a.ts", line |-> 2, excerpt |-> "eval(req.body.Key)"],
          [path |-> "b.ts", line |-> 1, excerpt |-> "const key = 1"] >>

\* scan_security_sinks has returned
Scanned == lastCall.tool = "scan_security_sinks" /\ lastCall.err = ""

\* the line of the checkout that a finding points at
FindingLine(finding) == EntryAt(FileNamed(finding.path)).lines[finding.line]

\* the confidence rule of the documentation, on the marks of a line
RuleConfidence(marks) ==
  IF "taint" \in marks THEN "high"
  ELSE IF "sanitizer" \in marks THEN "low"
  ELSE "medium"

\* C25: every finding of scan_security_sinks, of every category, has the
\* confidence of the rule (high with a taint marker on the line; low with a
\* sanitizer call and no taint marker; medium otherwise), and no xss or
\* injection finding is on a line whose confidence is low.
C25_ConfidenceRule ==
  Scanned =>
    \A i \in 1..Len(lastCall.out) :
      /\ lastCall.out[i].confidence = RuleConfidence(FindingLine(lastCall.out[i]).marks)
      /\ lastCall.out[i].category \in {"xss", "injection"} =>
           RuleConfidence(FindingLine(lastCall.out[i]).marks) # "low"

\* C26: a path-traversal finding of scan_security_sinks is on a line that has
\* a path join, resolve or normalize call and a taint marker, and its
\* confidence is high; a line with such a call and no taint marker yields no
\* finding unless another pattern list matches it.
C26_PathTraversalNeedsTaint ==
  Scanned =>
    /\ \A i \in 1..Len(lastCall.out) :
         lastCall.out[i].category = "path-traversal" =>
           /\ "path" \in FindingLine(lastCall.out[i]).marks
           /\ "taint" \in FindingLine(lastCall.out[i]).marks
           /\ lastCall.out[i].confidence = "high"
    /\ \A p \in lastCall.reads :
         \A n \in 1..Len(EntryAt(p).lines) :
           EntryAt(p).lines[n].marks = {"path"} =>
             ~\E i \in 1..Len(lastCall.out) :
                 FileNamed(lastCall.out[i].path) = p /\ lastCall.out[i].line = n

C26_Witness ==
  /\ Scanned
  /\ \E i \in 1..Len(lastCall.out) :
       /\ lastCall.out[i].path = "src/a.ts"
       /\ lastCall.out[i].line = 4
       /\ lastCall.out[i].category = "path-traversal"
       /\ lastCall.out[i].confidence = "high"
  /\ ~\E i \in 1..Len(lastCall.out) :
        lastCall.out[i].path = "src/a.ts" /\ lastCall.out[i].line = 3

\* list_dir has returned
Listed == lastCall.tool = "list_dir" /\ lastCall.err = ""

\* a requested size, brought to at least 1 and at most the ceiling
Clamped(requested, ceiling) ==
  IF requested > ceiling THEN ceiling ELSE IF requested < 1 THEN 1 ELSE requested

\* the directories a list_dir call read that it had listed before the cap
ListedBelowCap(cap) ==
  {d \in lastCall.access :
     \E i \in 1..Len(lastCall.out) :
       i < cap /\ PathResolve(RootDir, StripTrailingSlashes(lastCall.out[i])) = d}

\* the changed files up to the first that bears the name of the last hit
ScannedFiles ==
  {FileNamed(changedFiles[k]) :
     k \in {j \in 1..Len(changedFiles) :
              \A h \in 1..(j - 1) :
                changedFiles[h] # lastCall.out[Len(lastCall.out)].path}}

\* C30: list_dir returns at most max_entries entries (400 by default, at least
\* 1, at most the ceiling), and reads no directory other than the start
\* directory and the directories it listed before the cap was reached;
\* search_text returns at most max_results hits (20 by default, clamped
\* likewise) and, once the cap is reached, has read no changed file after the
\* file of the last hit.
C30_ResultCaps ==
  /\ Listed =>
       /\ Len(lastCall.out)
            <= Clamped(OrElse(lastCall.args.max_entries, 400), ListDirEntriesCap)
       /\ Cardinality(lastCall.access)
            <= 1 + Cardinality(ListedBelowCap(
                     Clamped(OrElse(lastCall.args.max_entries, 400), ListDirEntriesCap)))
  /\ Searched =>
       /\ Len(lastCall.out)
            <= Clamped(OrElse(lastCall.args.max_results, 20), SearchResultsCap)
       /\ Len(lastCall.out)
            = Clamped(OrElse(lastCall.args.max_results, 20), SearchResultsCap)
            => lastCall.reads \subseteq ScannedFiles

C30_Witness ==
  /\ Listed
  /\ lastCall.args.max_entries = <<4>>
  /\ lastCall.args.depth = <<1>>
  /\ lastCall.out = <<"b.ts", "package.json", "README.md", "src/">>
  /\ lastCall.access = {RootDir}

-----------------------------------------------------------------------------
(* Properties of the position map, the duplicate collapse, the approval    *)
(* gate behind the provider, and the checkout of a run.                    *)

\* the lines of a patch that open like a hunk header and do not parse as one
MalformedHeaders(lines, kinds) ==
  {m \in DOMAIN lines : StartsWith(lines[m], "@@ ") /\ kinds[m] # "header"}

\* the added lines that no malformed header separates from their hunk header
AddedAfterHeader(lines, kinds) ==
  {i \in AddedLines(kinds) :
     ~\E m \in MalformedHeaders(lines, kinds) :
         m < i /\ \A h \in HeadersBefore(kinds, i) : h < m}

\* C27: buildAddedLineToPositionMap returns a map for every patch, and the
\* lines that follow a hunk header that fails to parse add no entry until the
\* next well-formed header: every key of the map is the new-file number of an
\* added line that no malformed header separates from its hunk header.
C27_MalformedHeaderSkipped ==
  (fnName = "buildAddedLineToPositionMap" /\ fnOutput # <<>>) =>
    \A n \in DOMAIN fnOutput[1] :
      \E i \in AddedAfterHeader(TextLines(fnInput), LineKinds(TextLines(fnInput))) :
        ReplayNewLine(TextLines(fnInput), LineKinds(TextLines(fnInput)), i) = n

\* the lines are two or three consecutive repeats of one sub-block
WholeRepeat(lines) ==
  \E n \in {2, 3} :
    \E size \in 1..Len(lines) :
      /\ Len(lines) = n * size
      /\ \A i \in 1..Len(lines) : lines[i] = lines[((i - 1) % size) + 1]

\* the lines of a text, the white space around each removed
StrippedLines(text) == [i \in 1..Len(TextLines(text)) |-> Trim(TextLines(text)[i])]

\* C29: dedupeConsecutiveDuplicateBlock changes a block only when the whole
\* block is two or three consecutive repeats of one sub-block: the output of
\* every other block (a, a, b or a, b, a for example) has the lines of the
\* input, white space at their ends aside.
C29_CollapseOnlyRepeats ==
  (fnName = "dedupeConsecutiveDuplicateBlock" /\ fnOutput # <<>>) =>
    (~WholeRepeat(TextLines(fnInput)) => StrippedLines(fnOutput[1]) = StrippedLines(fnInput))

\* C28: a run (part_004) is never approved when the engine's output held at
\* least one suggestion candidate, not even when every candidate was discarded
\* by normalizeResult or by the preview check before the gate was evaluated.
C28_NoApprovalWithCandidates ==
  (/\ fnName = "generateSuggestions"
   /\ fnInput.version = VersionDismissing
   /\ Len(fnInput.raw.suggestions) > 0)
    => outcome # "approved"


\* ---------------------------------------------------------------------------
\* Properties of concurrent runs and of the checkout of a run.
\* ---------------------------------------------------------------------------

\* C22: with several runs in flight, each with its own tool surface, and under
\* every interleaving of their calls, the budget counters, the call counter and
\* the read-line total of each session are what the session's own calls give
\* on a session that runs alone: no call on one session changes another.
C22_SessionsIsolated ==
  \A i \in DOMAIN surfaces.sessions :
    SessionOf(surfaces, i) = surfaces.sessions[i].alone

\* two runs have interleaved: the first has listed and read, the second has
\* listed only, and their counters differ
C22_Witness ==
  /\ Len(surfaces.sessions) >= 2
  /\ SessionOf(surfaces, 1).totalCalls = 2
  /\ SessionOf(surfaces, 2).totalCalls = 1
  /\ SessionOf(surfaces, 1).budgets.readFile < InitialBudgets(profile).readFile
  /\ SessionOf(surfaces, 2).budgets.readFile = InitialBudgets(profile).readFile
  /\ SessionOf(surfaces, 2).budgets.listDir < InitialBudgets(profile).listDir

\* C21: in a run whose checkout was opened, cleanup is invoked exactly once:
\* never while the engine, the only user of the tool surface, or the rest of
\* the run's body is still at work, never twice, and always before the result
\* or the error is with the caller, whether the run approved, posted a review,
\* found no safe suggestion or threw.
C21_CleanupOnEveryExit ==
  [][ /\ workdir'.cleanups <= 1
      /\ (runPc' \in {"engine", "decide", "finally"} => workdir'.cleanups = 0)
      /\ (surfaces' # surfaces => workdir'.cleanups = 0)
      /\ (runPc' = "done" /\ workdir'.session => workdir'.cleanups = 1)
    ]_vars

\* the engine used the surface and then threw; the caller has the error and
\* the checkout was cleaned up once
C21_Witness ==
  /\ runPc = "done"
  /\ outcome = "error"
  /\ llmResult = <<>>
  /\ workdir.session
  /\ workdir.directory = "removed"
  /\ workdir.cleanups = 1
  /\ surfaces.sessions[1].totalCalls > 0

\* ---------------------------------------------------------------------------
\* Properties of the listing order, of per-file failures, of the ordering gate
\* and of races on one session.
\* ---------------------------------------------------------------------------

\* the listing the same list_dir call gives when nothing caps it
UncappedListing ==
  listDir([Session EXCEPT !.budgets = InitialBudgets(profile)],
          OrElse(lastCall.args.path, "."), OrElse(lastCall.args.depth, 3),
          ListDirEntriesCap).out

\* how many directories deep a listed entry lies
LevelOf(rel) == Len(Split(StripTrailingSlashes(rel), "/"))

\* the directory a listed entry lies in
ParentOf(rel) ==
  SubSeq(StripTrailingSlashes(rel), 1, LastIndexOf(StripTrailingSlashes(rel), "/"))

ListedEntries == {lastCall.out[i] : i \in 1..Len(lastCall.out)}

\* C31: a listing cut short by max_entries is cut breadth-first: it holds no
\* entry of a deeper level while an entry of a shallower level that the
\* uncapped listing holds is missing; and the entries of one directory appear
\* in the order of their names.
C31_BreadthFirstTruncation ==
  Listed =>
    /\ \A i \in 1..Len(lastCall.out) : \A j \in 1..Len(UncappedListing) :
         UncappedListing[j] \notin ListedEntries
           => LevelOf(UncappedListing[j]) >= LevelOf(lastCall.out[i])
    /\ \A i \in 1..Len(lastCall.out) : \A j \in (i + 1)..Len(lastCall.out) :
         ParentOf(lastCall.out[i]) = ParentOf(lastCall.out[j])
           => LocaleLess(basename(lastCall.out[i]), basename(lastCall.out[j]))

\* the call got past the ordering gate, the argument tests and the budget
Admitted(tool) ==
  /\ lastCall.tool = tool
  /\ lastCall.err \notin (ErrorsBeforeBudget \cup {Err.budget})

\* a changed file that stat and readFile succeed on: a regular file inside
\* the root
Readable(path) ==
  resolveRepoPath(path).ok /\ IsFile(resolveRepoPath(path).path)

\* the changed-file set without the files that cannot be read
ReadableChanged == SelectSeq(SetOrder(changedFiles, {}), Readable)

NothingFound == [hits |-> <<>>, access |-> {}, reads |-> {}]

NothingScanned == [findings |-> <<>>, access |-> {}, reads |-> {}]

\* C32: a file that cannot be read never fails a best-effort call.
\* read_guidelines answers with one entry per fixed filename, in order, empty
\* for a file that is not there; search_text and scan_security_sinks answer
\* with exactly the hits and findings they give when the files that cannot be
\* read are left out of the changed-file set.
C32_PerFileFailuresSkipped ==
  /\ Admitted("read_guidelines") =>
       /\ lastCall.err = ""
       /\ Len(lastCall.out) = Len(GuidelineFiles)
       /\ \A i \in 1..Len(GuidelineFiles) :
            /\ lastCall.out[i].file = GuidelineFiles[i]
            /\ ~IsFile(FileNamed(GuidelineFiles[i])) => lastCall.out[i].content = <<>>
  /\ Admitted("search_text") =>
       /\ lastCall.err = ""
       /\ lastCall.out
            = searchFiles(ReadableChanged, ToLowerCase(lastCall.args.query[1]),
                          Clamped(OrElse(lastCall.args.max_results, 20), SearchResultsCap),
                          NothingFound).hits
  /\ Admitted("scan_security_sinks") =>
       /\ lastCall.err = ""
       /\ lastCall.out = scanFiles(ReadableChanged, NothingScanned).findings

\* a search whose changed-file set names a missing file, a directory and a
\* path outside the root before a file with a hit
C32_Witness ==
  /\ Searched
  /\ changedFiles = <<"gone.ts", "src", "../out.ts", "src/a.ts">>
  /\ lastCall.args.query = <<"key">>
  /\ Len(lastCall.out) = 1
  /\ lastCall.out[1].path = "src/a.ts"
  /\ lastCall.out[1].line = 2

\* ---------------------------------------------------------------------------
\* Properties of the session setup.
\* ---------------------------------------------------------------------------

\* createWorkdirSession has thrown and the run has passed the error on
SetupFailed ==
  /\ runPc \in {"finally", "done"}
  /\ outcome = "error"
  /\ ~workdir.session

\* C33: when the session setup fails, at whichever git command, the working
\* directory is not left behind once the failure is on its way to the caller,
\* the run ends as failed and no review has been posted.
C33_FailedSetupRemovesDirectory ==
  SetupFailed =>
    /\ workdir.directory # "present"
    /\ reviews = <<>>

\* the executions of the current command before the last one
EarlierTries == SubSeq(workdir.tried, 1, Len(workdir.tried) - 1)

\* C39: the retry loop around a git command ends: a command is executed at
\* most MAX_GIT_RETRIES + 1 = 3 times; what the loop gives is the outcome of
\* its last execution, every execution before that one failed, so the first
\* success is returned with nothing run after it; an error is passed on only
\* as the error of the third execution (of the only one where nothing is
\* retried); and the session setup always comes to an end.
C39_GitRetryBounded ==
  /\ [](/\ workdir.attempt <= MAX_GIT_RETRIES + 1
        /\ Len(workdir.tried) <= MAX_GIT_RETRIES + 1
        /\ \A i \in 1..Len(EarlierTries) : ~EarlierTries[i].ok
        /\ workdir.returned # <<>> =>
             /\ workdir.returned[1] = workdir.tried[Len(workdir.tried)]
             /\ ~workdir.returned[1].ok =>
                  Len(workdir.tried)
                    = IF workdir.setup = SetupRetrying THEN MAX_GIT_RETRIES + 1 ELSE 1)
  /\ (runPc = "setup") ~> (runPc # "setup")

\* a command failed twice and returned its output on the third execution
C39_Witness ==
  /\ workdir.setup = SetupRetrying
  /\ Len(workdir.tried) = 3
  /\ ~workdir.tried[1].ok
  /\ ~workdir.tried[2].ok
  /\ workdir.returned = <<[ok |-> TRUE, text |-> "sha1"]>>

-----------------------------------------------------------------------------
(* Properties of calls that overlap on one session.                        *)

RECURSIVE LinesAwaited(_)
LinesAwaited(q) ==
  IF q = <<>> THEN 0 ELSE Head(q).requestedLineCount + LinesAwaited(Tail(q))

\* C34: whatever the interleaving of the calls of one session, calls that start
\* while a read_file awaits its file included, the calls of a kind that got
\* past the budget check never number more than the kind's budget, and on the
\* conservative profile the read-line total, the lines of the suspended reads
\* counted in, never exceeds 2000.
C34_AccountingRaceFree ==
  /\ \A k \in DOMAIN passed : passed[k] <= InitialBudgets(profile)[k]
  /\ (profile = "conservative" => totalReadLines + LinesAwaited(awaiting) <= 2000)

\* every read_file of the budget admitted, several of them suspended at once
C34_Witness ==
  /\ profile = "conservative"
  /\ passed.readFile = InitialBudgets(profile).readFile
  /\ Len(awaiting) >= 2
  /\ totalReadLines > 0
  /\ totalReadLines + LinesAwaited(awaiting) = 1600

-----------------------------------------------------------------------------
(* Properties of the mention trigger.                                      *)

\* C35: no review that a run creates, approving or commenting, has a body on
\* which the review event handler starts a run under the default trigger
\* mention: the system's own output never triggers the system.
C35_OwnOutputNeverTriggers ==
  \A i \in DOMAIN reviews :
    ~processPullRequestReviewEvent(reviews[i].body, DefaultTriggerMention)

-----------------------------------------------------------------------------
(* Properties of the ordering gate.                                        *)

\* C36: a tool other than list_dir returns a result only in a session where an
\* earlier list_dir call has returned a listing: a list_dir call that fails
\* opens the gate for no other tool.
C36_GateNeedsListing ==
  [][ ( /\ totalCalls' > totalCalls
        /\ lastCall'.tool # "list_dir"
        /\ lastCall'.err = "" )
      => listDirReturned ]_vars

-----------------------------------------------------------------------------
(* Properties of the reconciliation of a whole candidate list.             *)

\* candidate i is among the inline comments under its (path, position, body)
EmittedInline(comments, files, candidates, i) ==
  \E k \in DOMAIN comments : <<comments[k]>> = CandidateTriple(files, candidates, i)

\* the fallback list has an entry for the path and line of candidate i
InFallback(items, candidates, i) ==
  \E k \in DOMAIN items :
    /\ items[k].path = normalizePath(candidates[i].path)
    /\ items[k].line = candidates[i].line

\* C37: buildReviewPayload (part_004, part_005) loses no candidate: each one is
\* an inline comment of the review or the exact duplicate of one, or has a
\* fallback entry for its path and line, those after the twentieth inline
\* comment included.
C37_NoCandidateLost ==
  (PayloadBuilt /\ fnInput.version \in {VersionGated, VersionDismissing}) =>
    \A i \in DOMAIN fnInput.suggestions :
      \/ EmittedInline(fnOutput[1].loop.comments, fnInput.files, fnInput.suggestions, i)
      \/ InFallback(fnOutput[1].loop.fallbackItems, fnInput.suggestions, i)

-----------------------------------------------------------------------------
(* Properties of runs that overlap on one pull request.                    *)

\* C38: with every API call succeeding and the runs of one pull request
\* interleaved in any way, once a COMMENT review is on the pull request every
\* APPROVED review of the bot that is not dismissed was created by a run that
\* started after that COMMENT review.
C38_NoStaleApproval ==
  \A c, a \in DOMAIN reviews :
    (reviews[c].event = "COMMENT" /\ reviews[a].state = "APPROVED") =>
      \E r \in DOMAIN pullRuns :
        pullRuns[r].created = a /\ pullRuns[r].startedAt >= c

====
